---- MODULE Spec2Model ----
(***************************************************************************)
(* Greedy circuit routing (cirq.contrib.routing.greedy): the router's      *)
(* state, its two steps apply_possible_ops and apply_next_swaps, and the   *)
(* pure helpers they use.                                                  *)
(***************************************************************************)
EXTENDS Naturals, Integers, Sequences, FiniteSets, TLC

\* ------------------------------------------------------------------ bounds
NSites == 4
NLineSites == 5
NCallerSites == 3
MaxLineQubits == 4
MaxArity == 3
MaxOps == 2
MaxRadius == 2
MaxVectors == 3
MaxVectorLen == 2
MaxEntry == 1
MaxCrosstalkSites == 4
MaxCrosstalkEdges == 2
MaxOtherOperations == 2

VARIABLES
    physical_qubits,     \* the device's sites
    device_graph,        \* set of device edges <<a, b>>, a < b
    physical_distances,  \* (a, b) -> hop distance, for connected a, b
    circuit,             \* the input circuit: a sequence of operations
    logical_qubits,      \* the qubits the circuit acts on
    max_search_radius,
    remaining_dag,       \* node ids (positions in circuit) not yet executed
    edge_sets,           \* cache: matching size -> list of matchings
    physical_ops,        \* the output sequence
    initial_mapping,     \* physical -> logical, as given at construction
    phys_to_log,         \* physical -> logical or None
    log_to_phys,         \* logical -> physical
    pruning,             \* the last apply_next_swaps: per k and timeslice, the
                         \* distance vectors and the number of candidates kept
    fallback,            \* the last bring_farthest_pair_together: its locals
    pc,                  \* "centering" | "placing" | "draining" | "searching"
                         \* | "done" | "error"
    seen,                \* (mapping, remaining graph) at each swap search so far
    mapping,             \* get_initial_mapping: physical -> logical, so far
    unplaced_vertices,   \* get_initial_mapping: the logical qubits to place
    call_vectors,        \* the argument of a _get_dominated_indices call
    call_result,         \* and its result
    call_n_qubits,       \* the arguments of a uniform_undirected_linear_device
    call_edge_labels,    \* call
    call_device,         \* and the device it returns
    call_crosstalk_graph,   \* the crosstalk graph of the device and the
    call_operation,         \* arguments of a validate_crosstalk call
    call_other_operations

vars == <<physical_qubits, device_graph, physical_distances, circuit, logical_qubits,
          max_search_radius, remaining_dag, edge_sets, physical_ops,
          initial_mapping, phys_to_log, log_to_phys, pruning, fallback, pc,
          seen, mapping, unplaced_vertices, call_vectors, call_result,
          call_n_qubits, call_edge_labels, call_device, call_crosstalk_graph,
          call_operation, call_other_operations>>

\* the locals of get_initial_mapping
placement_vars == <<mapping, unplaced_vertices>>

\* the arguments and results of the calls of pure functions
call_vars ==
    <<call_vectors, call_result, call_n_qubits, call_edge_labels, call_device,
      call_crosstalk_graph, call_operation, call_other_operations>>

\* ------------------------------------------------------------ basic values
None == 0
\* a circuit of MaxOps operations acts on at most 2 * MaxOps qubits
Qubits == 1..(2 * MaxOps)

Range(s) == {s[i] : i \in DOMAIN s}

Put(f, k, v) == [x \in DOMAIN f \cup {k} |-> IF x = k THEN v ELSE f[x]]

RECURSIVE SeqMin(_)
SeqMin(s) ==
    IF Len(s) = 1 THEN s[1]
    ELSE LET m == SeqMin(Tail(s)) IN IF s[1] <= m THEN s[1] ELSE m

RECURSIVE SortedSeq(_)
\* a set of edges as a list, in lexicographic order
SortedSeq(S) ==
    IF S = {} THEN <<>>
    ELSE LET x == CHOOSE x \in S : \A y \in S :
                      x[1] < y[1] \/ (x[1] = y[1] /\ x[2] <= y[2])
         IN <<x>> \o SortedSeq(S \ {x})

\* ------------------------------------------------------------ device graph
\* e in device_graph.edges, for an undirected graph
InEdges(g, e) == Len(e) = 2 /\ (e \in g \/ <<e[2], e[1]>> \in g)

Neighbors(g, a) == {b \in physical_qubits : InEdges(g, <<a, b>>)}

RECURSIVE Ball(_, _, _)
Ball(g, a, n) ==
    IF n = 0 THEN {a}
    ELSE LET B == Ball(g, a, n - 1)
         IN B \cup UNION {Neighbors(g, b) : b \in B}

\* shortest_path_length with an entry for every pair of sites: the number
\* of sites for a pair that no path connects
ShortestPathLength_total(g) ==
    [e \in physical_qubits \X physical_qubits |->
        IF e[2] \in Ball(g, e[1], Cardinality(physical_qubits))
        THEN CHOOSE n \in 0..Cardinality(physical_qubits) :
                 /\ e[2] \in Ball(g, e[1], n)
                 /\ (n = 0 \/ e[2] \notin Ball(g, e[1], n - 1))
        ELSE Cardinality(physical_qubits)]

\* nx.shortest_path_length(device_graph): all pairs, reachable pairs only
ShortestPathLength(g) ==
    [e \in {p \in physical_qubits \X physical_qubits :
                p[2] \in Ball(g, p[1], Cardinality(physical_qubits))} |->
        CHOOSE n \in 0..Cardinality(physical_qubits) :
            /\ e[2] \in Ball(g, e[1], n)
            /\ (n = 0 \/ e[2] \notin Ball(g, e[1], n - 1))]

RECURSIVE PathsOfLength(_, _, _, _)
PathsOfLength(g, u, v, d) ==
    IF d = 0 THEN (IF u = v THEN {<<u>>} ELSE {})
    ELSE UNION {{<<u>> \o p : p \in PathsOfLength(g, w, v, d - 1)} :
                    w \in Neighbors(g, u)}

\* a path search that returns any simple path from u to v, shortest or not
ShortestPaths_any_length(g, u, v) ==
    {p \in UNION {PathsOfLength(g, u, v, d) :
                      d \in 0..(Cardinality(physical_qubits) - 1)} :
        \A i, j \in 1..Len(p) : p[i] = p[j] => i = j}

\* nx.shortest_path(device_graph, u, v): some shortest path from u to v
ShortestPaths(g, u, v) ==
    LET d == CHOOSE n \in 0..Cardinality(physical_qubits) :
                 /\ v \in Ball(g, u, n)
                 /\ (n = 0 \/ v \notin Ball(g, u, n - 1))
    IN PathsOfLength(g, u, v, d)

\* ------------------------------------------------------------ circuit, DAG
Operations ==
    {<<q>> : q \in Qubits} \cup {e \in Qubits \X Qubits : e[1] # e[2]}

RECURSIVE Flatten(_)
Flatten(c) == IF c = <<>> THEN <<>> ELSE Head(c) \o Flatten(Tail(c))

\* the qubits are numbered in the order the circuit first uses them
FirstUseOrder(c) ==
    LET f == Flatten(c)
    IN \A i \in 1..Len(f) : \A q \in 1..(f[i] - 1) : \E j \in 1..(i - 1) : f[j] = q

\* every circuit of at most MaxOps one- and two-qubit operations, up to the
\* names of its qubits
Circuits ==
    {c \in UNION {[1..n -> Operations] : n \in 0..MaxOps} : FirstUseOrder(c)}

QubitsOf(op) == Range(op)

\* circuit_dag._disjoint_qubits, the default can_reorder
can_reorder(op1, op2) == QubitsOf(op1) \cap QubitsOf(op2) = {}

\* CircuitDag.from_circuit: b must happen after a
has_edge(c, dag, a, b) ==
    a \in dag /\ b \in dag /\ a < b /\ ~can_reorder(c[a], c[b])

AllQubits(c) == UNION {QubitsOf(c[i]) : i \in DOMAIN c}

RECURSIVE ScanUntilBlocked(_, _, _, _, _)
ScanUntilBlocked(c, dag, blockers, n, acc) ==
    IF n > Len(c) THEN acc
    ELSE IF /\ n \in dag
            /\ n \notin blockers
            /\ \A m \in dag : has_edge(c, dag, m, n) => m \in Range(acc)
         THEN ScanUntilBlocked(c, dag, blockers, n + 1, Append(acc, n))
         ELSE ScanUntilBlocked(c, dag, blockers, n + 1, acc)

\* findall_nodes_until_blocked that does not expand past the frontier: it
\* scans only the nodes without a prerequisite
findall_nodes_until_blocked_frontier(c, dag, blockers) ==
    ScanUntilBlocked(c, {n \in dag : \A m \in dag : ~has_edge(c, dag, m, n)},
                     blockers, 1, <<>>)

\* CircuitDag.findall_nodes_until_blocked, blockers: the nodes the predicate holds of
findall_nodes_until_blocked(c, dag, blockers) ==
    ScanUntilBlocked(c, dag, blockers, 1, <<>>)

RECURSIVE NodesInOrder(_, _, _)
NodesInOrder(c, S, n) ==
    IF n > Len(c) THEN <<>>
    ELSE (IF n \in S THEN <<n>> ELSE <<>>) \o NodesInOrder(c, S, n + 1)

DagFrontier(c, dag) == {n \in dag : \A m \in dag : ~has_edge(c, dag, m, n)}

RECURSIVE get_timeslices(_, _)
\* utils.get_timeslices: each layer as the list of its two-qubit operations' pairs
get_timeslices(c, dag) ==
    IF dag = {} THEN <<>>
    ELSE LET F == DagFrontier(c, dag)
             twoq == {n \in F : Len(c[n]) = 2}
             nodes == NodesInOrder(c, twoq, 1)
         IN <<[i \in 1..Len(nodes) |-> c[nodes[i]]]>>
                \o get_timeslices(c, dag \ F)

\* ------------------------------------------------------------ the router
\* The mutable fields of a _GreedyRouter, as the methods below read and
\* write them.
Self ==
    [phys_to_log |-> phys_to_log, log_to_phys |-> log_to_phys,
     physical_ops |-> physical_ops, initial_mapping |-> initial_mapping,
     remaining_dag |-> remaining_dag, edge_sets |-> edge_sets,
     pruning |-> pruning, fallback |-> fallback, error |-> FALSE]

SWAP(e) == [gate |-> "SWAP", node |-> 0, qubits |-> e]

RECURSIVE Combinations(_, _)
\* itertools.combinations(s, k), in its order
Combinations(s, k) ==
    IF k = 0 THEN << <<>> >>
    ELSE IF Len(s) < k THEN <<>>
    ELSE LET with == Combinations(Tail(s), k - 1)
         IN [i \in 1..Len(with) |-> <<Head(s)>> \o with[i]]
                \o Combinations(Tail(s), k)

PairwiseDisjoint(edge_set) ==
    \A i, j \in 1..Len(edge_set) :
        i < j => Range(edge_set[i]) \cap Range(edge_set[j]) = {}

Matchings(edges, edge_set_size) ==
    SelectSeq(Combinations(edges, edge_set_size), PairwiseDisjoint)

\* get_edge_sets without the test that the edges are disjoint
get_edge_sets_unfiltered(self, edge_set_size) ==
    IF edge_set_size \in DOMAIN self.edge_sets THEN self
    ELSE [self EXCEPT !.edge_sets =
              Put(@, edge_set_size,
                  Combinations(SortedSeq(device_graph), edge_set_size))]

\* get_edge_sets: the matchings of the given size, cached
get_edge_sets(self, edge_set_size) ==
    IF edge_set_size \in DOMAIN self.edge_sets THEN self
    ELSE [self EXCEPT !.edge_sets =
              Put(@, edge_set_size,
                  Matchings(SortedSeq(device_graph), edge_set_size))]

RECURSIVE update_mapping_one_sided(_, _)
\* update_mapping that forgets the reverse dictionary
update_mapping_one_sided(self, physical_edges) ==
    IF physical_edges = <<>> THEN self
    ELSE LET e == Head(physical_edges)
             p2l == [self.phys_to_log EXCEPT ![e[1]] = self.phys_to_log[e[2]],
                                             ![e[2]] = self.phys_to_log[e[1]]]
         IN update_mapping_one_sided([self EXCEPT !.phys_to_log = p2l],
                                     Tail(physical_edges))

RECURSIVE update_mapping_aliased(_, _)
\* update_mapping when initial_mapping is the same dictionary as _phys_to_log
update_mapping_aliased(self, physical_edges) ==
    IF physical_edges = <<>> THEN self
    ELSE LET e == Head(physical_edges)
             l1 == self.phys_to_log[e[2]]
             l2 == self.phys_to_log[e[1]]
             p2l == [self.phys_to_log EXCEPT ![e[1]] = l1, ![e[2]] = l2]
             l2p_1 == IF l1 # None THEN Put(self.log_to_phys, l1, e[1])
                      ELSE self.log_to_phys
             l2p_2 == IF l2 # None THEN Put(l2p_1, l2, e[2]) ELSE l2p_1
         IN update_mapping_aliased(
                [self EXCEPT !.phys_to_log = p2l, !.log_to_phys = l2p_2,
                             !.initial_mapping = p2l],
                Tail(physical_edges))

RECURSIVE update_mapping_filled_only(_, _)
\* update_mapping with both assignments under the test for None: an
\* endpoint that receives no qubit keeps its old one
update_mapping_filled_only(self, physical_edges) ==
    IF physical_edges = <<>> THEN self
    ELSE LET e == Head(physical_edges)
             l1 == self.phys_to_log[e[2]]
             l2 == self.phys_to_log[e[1]]
             p2l_1 == IF l1 # None THEN [self.phys_to_log EXCEPT ![e[1]] = l1]
                      ELSE self.phys_to_log
             l2p_1 == IF l1 # None THEN Put(self.log_to_phys, l1, e[1])
                      ELSE self.log_to_phys
             p2l_2 == IF l2 # None THEN [p2l_1 EXCEPT ![e[2]] = l2] ELSE p2l_1
             l2p_2 == IF l2 # None THEN Put(l2p_1, l2, e[2]) ELSE l2p_1
         IN update_mapping_filled_only(
                [self EXCEPT !.phys_to_log = p2l_2, !.log_to_phys = l2p_2],
                Tail(physical_edges))

RECURSIVE update_mapping(_, _)
\* update_mapping: the SWAPs of physical_edges, in order, on both dictionaries
update_mapping(self, physical_edges) ==
    IF physical_edges = <<>> THEN self
    ELSE LET e == Head(physical_edges)
             l1 == self.phys_to_log[e[2]]
             l2 == self.phys_to_log[e[1]]
             p2l_1 == [self.phys_to_log EXCEPT ![e[1]] = l1]
             l2p_1 == IF l1 # None THEN Put(self.log_to_phys, l1, e[1])
                      ELSE self.log_to_phys
             p2l_2 == [p2l_1 EXCEPT ![e[2]] = l2]
             l2p_2 == IF l2 # None THEN Put(l2p_1, l2, e[2]) ELSE l2p_1
         IN update_mapping([self EXCEPT !.phys_to_log = p2l_2,
                                       !.log_to_phys = l2p_2],
                          Tail(physical_edges))

\* apply_swap without the update_mapping of line 115: the SWAPs are emitted
\* and the mapping stays as it was
apply_swap_emit_only(self, physical_edges) ==
    [self EXCEPT !.physical_ops =
        @ \o [i \in 1..Len(physical_edges) |-> SWAP(physical_edges[i])]]

\* apply_swap
apply_swap(self, physical_edges) ==
    LET s == update_mapping(self, physical_edges)
    IN [s EXCEPT !.physical_ops =
            @ \o [i \in 1..Len(physical_edges) |-> SWAP(physical_edges[i])]]

\* log_to_phys(*qubits)
LogToPhys(self, qubits) == [i \in 1..Len(qubits) |-> self.log_to_phys[qubits[i]]]

\* acts_on_nonadjacent_qubits without the test for one-qubit operations
acts_on_nonadjacent_qubits_any_arity(self, op) ==
    ~InEdges(device_graph, LogToPhys(self, op))

\* acts_on_nonadjacent_qubits
acts_on_nonadjacent_qubits(self, op) ==
    IF Len(op) = 1 THEN FALSE
    ELSE ~InEdges(device_graph, LogToPhys(self, op))

\* swap_network
swap_network(self) ==
    [circuit |-> self.physical_ops, initial_mapping |-> self.initial_mapping]

\* distance
distance(self, edge) == physical_distances[LogToPhys(self, edge)]

RECURSIVE swap_along_path_stride(_, _)
\* swap_along_path slicing path[i:i + 3:2]
swap_along_path_stride(self, path) ==
    IF Len(path) < 3 THEN self
    ELSE swap_along_path_stride(apply_swap(self, <<<<path[1], path[3]>>>>),
                                Tail(path))

RECURSIVE swap_along_path(_, _)
\* swap_along_path
swap_along_path(self, path) ==
    IF Len(path) < 2 THEN self
    ELSE swap_along_path(apply_swap(self, <<SubSeq(path, 1, 2)>>), Tail(path))

\* get_distance_vector without the second update_mapping
get_distance_vector_no_restore(self, logical_edges, swaps) ==
    LET s1 == update_mapping(self, swaps)
        v == [i \in 1..Len(logical_edges) |-> distance(s1, logical_edges[i])]
    IN [distance_vector |-> v, self |-> s1]

\* get_distance_vector
get_distance_vector(self, logical_edges, swaps) ==
    LET s1 == update_mapping(self, swaps)
        v == [i \in 1..Len(logical_edges) |-> distance(s1, logical_edges[i])]
        s2 == update_mapping(s1, swaps)
    IN [distance_vector |-> v, self |-> s2]

AllGeq(v, w) == \A n \in 1..Len(v) : v[n] >= w[n]

\* _get_dominated_indices comparing each vector with the whole list
get_dominated_indices_with_self(vectors) ==
    {i \in 1..Len(vectors) :
        \E j \in 1..Len(vectors) : AllGeq(vectors[i], vectors[j])}

\* _get_dominated_indices with any() for all()
get_dominated_indices_any(vectors) ==
    {i \in 1..Len(vectors) :
        LET others == SubSeq(vectors, 1, i - 1)
                          \o SubSeq(vectors, i + 1, Len(vectors))
        IN \E j \in 1..Len(others) :
               \E n \in 1..Len(vectors[i]) : vectors[i][n] >= others[j][n]}

\* _get_dominated_indices (indices from 1)
get_dominated_indices(vectors) ==
    {i \in 1..Len(vectors) :
        LET others == SubSeq(vectors, 1, i - 1)
                          \o SubSeq(vectors, i + 1, Len(vectors))
        IN \E j \in 1..Len(others) : AllGeq(vectors[i], others[j])}

\* ------------------------------------------------------ apply_possible_ops
Blockers(self) ==
    {n \in self.remaining_dag : acts_on_nonadjacent_qubits(self, circuit[n])}

\* the assertions of apply_possible_ops on the scanned nodes (lines 169-179)
ScanAssertions(self, nodes) ==
    /\ \A i, j \in 1..Len(nodes) :
           i < j => ~has_edge(circuit, self.remaining_dag, nodes[j], nodes[i])
    /\ \A i \in 1..Len(nodes) : ~acts_on_nonadjacent_qubits(self, circuit[nodes[i]])
    /\ \A i \in 1..Len(nodes) : \A r \in self.remaining_dag \ Range(nodes) :
           ~has_edge(circuit, self.remaining_dag, r, nodes[i])

RECURSIVE EmitNodes_prepending(_, _)
\* the loop of apply_possible_ops inserting at the front of physical_ops
EmitNodes_prepending(self, nodes) ==
    IF nodes = <<>> \/ self.error THEN self
    ELSE LET node == Head(nodes)
             physical_op == [gate |-> "op", node |-> node,
                             qubits |-> LogToPhys(self, circuit[node])]
             removed == [self EXCEPT !.remaining_dag = @ \ {node}]
         IN IF Len(physical_op.qubits) < 2
               \/ InEdges(device_graph, physical_op.qubits)
            THEN EmitNodes_prepending(
                     [removed EXCEPT !.physical_ops = <<physical_op>> \o @],
                     Tail(nodes))
            ELSE [removed EXCEPT !.error = TRUE]

RECURSIVE EmitNodes_dropping(_, _)
\* the loop of apply_possible_ops appending only the last node's operation
EmitNodes_dropping(self, nodes) ==
    IF nodes = <<>> \/ self.error THEN self
    ELSE LET node == Head(nodes)
             physical_op == [gate |-> "op", node |-> node,
                             qubits |-> LogToPhys(self, circuit[node])]
             removed == [self EXCEPT !.remaining_dag = @ \ {node}]
         IN IF Len(physical_op.qubits) < 2
               \/ InEdges(device_graph, physical_op.qubits)
            THEN EmitNodes_dropping(
                     IF Len(nodes) = 1
                     THEN [removed EXCEPT !.physical_ops =
                               Append(@, physical_op)]
                     ELSE removed,
                     Tail(nodes))
            ELSE [removed EXCEPT !.error = TRUE]

RECURSIVE EmitNodes_reversed(_, _)
\* the loop of apply_possible_ops over reversed(nodes)
EmitNodes_reversed(self, nodes) ==
    IF nodes = <<>> \/ self.error THEN self
    ELSE LET node == nodes[Len(nodes)]
             physical_op == [gate |-> "op", node |-> node,
                             qubits |-> LogToPhys(self, circuit[node])]
             removed == [self EXCEPT !.remaining_dag = @ \ {node}]
         IN IF Len(physical_op.qubits) < 2
               \/ InEdges(device_graph, physical_op.qubits)
            THEN EmitNodes_reversed(
                     [removed EXCEPT !.physical_ops = Append(@, physical_op)],
                     SubSeq(nodes, 1, Len(nodes) - 1))
            ELSE [removed EXCEPT !.error = TRUE]

RECURSIVE EmitNodes(_, _)
\* the loop of apply_possible_ops (lines 180-187)
EmitNodes(self, nodes) ==
    IF nodes = <<>> \/ self.error THEN self
    ELSE LET node == Head(nodes)
             physical_op == [gate |-> "op", node |-> node,
                             qubits |-> LogToPhys(self, circuit[node])]
             removed == [self EXCEPT !.remaining_dag = @ \ {node}]
         IN IF Len(physical_op.qubits) < 2
               \/ InEdges(device_graph, physical_op.qubits)
            THEN EmitNodes([removed EXCEPT !.physical_ops =
                                Append(@, physical_op)], Tail(nodes))
            ELSE [removed EXCEPT !.error = TRUE]

\* apply_possible_ops
apply_possible_ops(self) ==
    LET nodes == findall_nodes_until_blocked(circuit, self.remaining_dag,
                                          Blockers(self))
    IN IF ScanAssertions(self, nodes) THEN EmitNodes(self, nodes)
       ELSE [self EXCEPT !.error = TRUE]

\* -------------------------------------------------------- apply_next_swaps
\* bring_farthest_pair_together looking distances up with a default: an
\* unreachable pair is left where it is
bring_farthest_pair_together_lenient(self, pairs) ==
    IF pairs = <<>> THEN {[self EXCEPT !.error = TRUE]}
    ELSE {[self EXCEPT !.fallback =
               [pairs |-> pairs, distances |-> <<>>, max_distance |-> 0,
                farthest_pair |-> pairs[i]]] : i \in 1..Len(pairs)}

\* bring_farthest_pair_together swapping along the whole path, unsplit
bring_farthest_pair_together_unsplit(self, pairs) ==
    IF \/ pairs = <<>>
       \/ \E i \in 1..Len(pairs) :
              LogToPhys(self, pairs[i]) \notin DOMAIN physical_distances
    THEN {[self EXCEPT !.error = TRUE]}
    ELSE LET distances == [i \in 1..Len(pairs) |-> distance(self, pairs[i])]
             max_distance == SeqMin(distances)
             farthest_pairs == {pairs[i] : i \in
                                   {j \in 1..Len(pairs) :
                                        distances[j] = max_distance}}
         IN UNION {
              LET edge == LogToPhys(self, fp)
              IN {swap_along_path(
                      [self EXCEPT !.fallback =
                          [pairs |-> pairs, distances |-> distances,
                           max_distance |-> max_distance,
                           farthest_pair |-> fp]],
                      shortest_path)
                  : shortest_path \in
                        ShortestPaths(device_graph, edge[1], edge[2])}
              : fp \in farthest_pairs}

\* bring_farthest_pair_together: one result per tie-break and shortest path
bring_farthest_pair_together(self, pairs) ==
    IF \/ pairs = <<>>
       \/ \E i \in 1..Len(pairs) :
              LogToPhys(self, pairs[i]) \notin DOMAIN physical_distances
    THEN {[self EXCEPT !.error = TRUE]}
    ELSE LET distances == [i \in 1..Len(pairs) |-> distance(self, pairs[i])]
             max_distance == SeqMin(distances)
             farthest_pairs == {pairs[i] : i \in
                                   {j \in 1..Len(pairs) :
                                        distances[j] = max_distance}}
             midpoint == max_distance \div 2
         IN UNION {
              LET edge == LogToPhys(self, fp)
              IN {LET chosen == [self EXCEPT !.fallback =
                                    [pairs |-> pairs, distances |-> distances,
                                     max_distance |-> max_distance,
                                     farthest_pair |-> fp]]
                      first == swap_along_path(chosen,
                                   SubSeq(shortest_path, 1, midpoint))
                  IN IF Len(shortest_path) - 1 = max_distance
                     THEN swap_along_path(first,
                              SubSeq(shortest_path, midpoint + 1,
                                     Len(shortest_path)))
                     ELSE [chosen EXCEPT !.error = TRUE]
                  : shortest_path \in
                        ShortestPaths(device_graph, edge[1], edge[2])}
              : fp \in farthest_pairs}

RECURSIVE DistanceVectors(_, _, _, _)
\* the distance vectors of the candidates, measured one after the other
DistanceVectors(self, logical_edges, candidate_swap_sets, acc) ==
    IF candidate_swap_sets = <<>> THEN [vectors |-> acc, self |-> self]
    ELSE LET r == get_distance_vector(self, logical_edges,
                                    Head(candidate_swap_sets))
         IN DistanceVectors(r.self, logical_edges, Tail(candidate_swap_sets),
                            Append(acc, r.distance_vector))

\* the candidates left after one timeslice (lines 240-247)
Prune(candidate_swap_sets, distance_vectors) ==
    LET dominated_indices == get_dominated_indices(distance_vectors)
        keep == {i \in 1..Len(candidate_swap_sets) : i \notin dominated_indices}
        RECURSIVE Kept(_)
        Kept(i) == IF i > Len(candidate_swap_sets) THEN <<>>
                   ELSE (IF i \in keep THEN <<candidate_swap_sets[i]>>
                         ELSE <<>>) \o Kept(i + 1)
    IN Kept(1)

RECURSIVE NarrowByTimeslices_in_place(_, _, _, _, _)
\* the loop over timeslices pruning the cached list itself, not a copy
NarrowByTimeslices_in_place(self, timeslices, candidate_swap_sets, k, t) ==
    IF t > Len(timeslices)
    THEN [found |-> FALSE, self |-> self, swaps |-> <<>>,
          left |-> candidate_swap_sets]
    ELSE LET m == DistanceVectors(self, timeslices[t], candidate_swap_sets,
                                  <<>>)
             kept == Prune(candidate_swap_sets, m.vectors)
             s == [m.self EXCEPT
                      !.pruning =
                          Append(@, [k |-> k, timeslice |-> t,
                                     vectors |-> m.vectors,
                                     kept |-> Len(kept)]),
                      !.edge_sets = Put(@, k, kept)]
         IN IF Len(kept) = 1
            THEN [found |-> TRUE, self |-> s, swaps |-> kept[1],
                  left |-> kept]
            ELSE NarrowByTimeslices_in_place(s, timeslices, kept, k, t + 1)

RECURSIVE NarrowByTimeslices(_, _, _, _, _)
\* the loop over timeslices for one k (lines 239-250)
NarrowByTimeslices(self, timeslices, candidate_swap_sets, k, t) ==
    IF t > Len(timeslices)
    THEN [found |-> FALSE, self |-> self, swaps |-> <<>>,
          left |-> candidate_swap_sets]
    ELSE LET m == DistanceVectors(self, timeslices[t], candidate_swap_sets,
                                  <<>>)
             kept == Prune(candidate_swap_sets, m.vectors)
             s == [m.self EXCEPT !.pruning =
                      Append(@, [k |-> k, timeslice |-> t,
                                 vectors |-> m.vectors, kept |-> Len(kept)])]
         IN IF Len(kept) = 1
            THEN [found |-> TRUE, self |-> s, swaps |-> kept[1],
                  left |-> kept]
            ELSE NarrowByTimeslices(s, timeslices, kept, k, t + 1)

RECURSIVE SearchFrom_no_return(_, _, _)
\* the loop over k of apply_next_swaps without the return of line 250: the
\* fallback follows the matching
SearchFrom_no_return(self, timeslices, k) ==
    IF k > max_search_radius
    THEN (IF timeslices = <<>> THEN {[self EXCEPT !.error = TRUE]}
          ELSE bring_farthest_pair_together(self, timeslices[1]))
    ELSE LET cached == get_edge_sets(self, k)
             r == NarrowByTimeslices(cached, timeslices,
                                     cached.edge_sets[k], k, 1)
         IN IF r.found
            THEN bring_farthest_pair_together(apply_swap(r.self, r.swaps),
                                              timeslices[1])
            ELSE SearchFrom_no_return(r.self, timeslices, k + 1)

RECURSIVE SearchFrom(_, _, _)
\* the loop over k of apply_next_swaps, then the fallback
SearchFrom(self, timeslices, k) ==
    IF k > max_search_radius
    THEN (IF timeslices = <<>> THEN {[self EXCEPT !.error = TRUE]}
          ELSE bring_farthest_pair_together(self, timeslices[1]))
    ELSE LET cached == get_edge_sets(self, k)
             r == NarrowByTimeslices(cached, timeslices,
                                     cached.edge_sets[k], k, 1)
         IN IF r.found THEN {apply_swap(r.self, r.swaps)}
            ELSE SearchFrom(r.self, timeslices, k + 1)

\* apply_next_swaps: the states it can end in
apply_next_swaps(self) ==
    SearchFrom([self EXCEPT !.pruning = <<>>],
               get_timeslices(circuit, self.remaining_dag), 1)

\* ------------------------------------------------------------ construction
\* set_initial_mapping filling _phys_to_log from the mapping's own keys
set_initial_mapping_sparse(given) ==
    LET p2l == [q \in DOMAIN given |-> given[q]]
        l2p == [l \in Range(given) |->
                   CHOOSE q \in DOMAIN given :
                       /\ given[q] = l
                       /\ \A r \in DOMAIN given : given[r] = l => r <= q]
    IN [initial_mapping |-> given, phys_to_log |-> p2l, log_to_phys |-> l2p]

\* set_initial_mapping with a caller-supplied mapping (lines 143-150)
set_initial_mapping(given) ==
    LET p2l == [q \in physical_qubits |->
                   IF q \in DOMAIN given THEN given[q] ELSE None]
        placed == {p2l[q] : q \in physical_qubits} \ {None}
        l2p == [l \in placed |->
                   CHOOSE q \in physical_qubits :
                       /\ p2l[q] = l
                       /\ \A r \in physical_qubits : p2l[r] = l => r <= q]
    IN [initial_mapping |-> given, phys_to_log |-> p2l, log_to_phys |-> l2p]

\* _assert_mapping_consistency
mapping_consistency(l2p, p2l, logical) ==
    /\ DOMAIN l2p = logical
    /\ DOMAIN p2l = physical_qubits
    /\ \A l \in DOMAIN l2p : l = p2l[l2p[l]]

\* the mappings a caller can supply for a circuit on the given qubits
ValidMappings(logical) ==
    UNION {{m \in [D -> logical] : \A a, b \in D : m[a] = m[b] => a = b} :
               D \in {X \in SUBSET physical_qubits :
                          Cardinality(X) = Cardinality(logical)}}

\* the devices routed on: lines, rings, stars and complete graphs on n sites
Line(n) == {<<a, a + 1>> : a \in 1..(n - 1)}
Ring(n) == Line(n) \cup (IF n > 2 THEN {<<1, n>>} ELSE {})
Star(n) == {<<1, a>> : a \in 2..n}
Complete(n) == {e \in (1..n) \X (1..n) : e[1] < e[2]}
DeviceGraphs(n) == {Line(n), Ring(n), Star(n), Complete(n)}

\* a star with an edge between two of its leaves: a device on which the
\* unused sites next to the used ones are not all equally far from them
Paw(n) == Star(n) \cup (IF n > 2 THEN {<<2, 3>>} ELSE {})
PlacementDevices == [n \in 1..NSites |-> DeviceGraphs(n) \cup {Paw(n)}]

\* utils.are_ops_consistent_with_device_graph
are_ops_consistent_with_device_graph(operations, g) ==
    \A i \in 1..Len(operations) :
        Len(operations[i].qubits) < 2 \/ InEdges(g, operations[i].qubits)

NoFallback ==
    [pairs |-> <<>>, distances |-> <<>>, max_distance |-> 0,
     farthest_pair |-> <<>>]

NoDevice == [labelled_edges |-> <<>>]

\* no call of validate_crosstalk is under way
NoCrosstalkCall ==
    /\ call_crosstalk_graph = NoDevice
    /\ call_operation = <<>>
    /\ call_other_operations = <<>>

\* no call of a pure function is under way
NoCall ==
    /\ call_vectors = <<>>
    /\ call_result = {}
    /\ call_n_qubits = 0
    /\ call_edge_labels = <<>>
    /\ call_device = NoDevice
    /\ NoCrosstalkCall

\* the values of max_search_radius: its default and the largest one
SearchRadii == {1, MaxRadius}

\* the circuits with no more qubits than the device has sites
Fitting(circuits) ==
    {c \in circuits :
        Cardinality(AllQubits(c)) <= Cardinality(physical_qubits)}

\* _GreedyRouter.__init__ up to set_initial_mapping (lines 71-84, 88), on one
\* of the given devices and one of the given circuits
RouterFieldsOf(devices, circuits) ==
    /\ \E n \in DOMAIN devices :
           /\ physical_qubits = 1..n
           /\ device_graph \in devices[n]
    /\ physical_distances = ShortestPathLength(device_graph)
    /\ circuit \in circuits
    /\ remaining_dag = DOMAIN circuit
    /\ logical_qubits = AllQubits(circuit)
    /\ edge_sets = <<>>
    /\ physical_ops = <<>>
    /\ max_search_radius \in SearchRadii
    /\ pruning = <<>>
    /\ fallback = NoFallback
    /\ seen = {}
    /\ NoCall

\* the same, for every circuit of at most MaxOps operations that the device
\* has the sites for
RouterFields(devices) == RouterFieldsOf(devices, Fitting(Circuits))

\* __init__ with initial_mapping given (line 86)
CallerMapping(given) ==
    LET s == set_initial_mapping(given)
    IN /\ initial_mapping = s.initial_mapping
       /\ phys_to_log = s.phys_to_log
       /\ log_to_phys = s.log_to_phys
       /\ pc = IF mapping_consistency(s.log_to_phys, s.phys_to_log,
                                      logical_qubits)
               THEN "draining" ELSE "error"
       /\ mapping = <<>>
       /\ unplaced_vertices = {}

\* _GreedyRouter.__init__ with a valid initial_mapping
Construct(devices) ==
    /\ RouterFields(devices)
    /\ \E given \in ValidMappings(logical_qubits) : CallerMapping(given)

Assign(s) ==
    /\ phys_to_log' = s.phys_to_log
    /\ log_to_phys' = s.log_to_phys
    /\ physical_ops' = s.physical_ops
    /\ initial_mapping' = s.initial_mapping
    /\ remaining_dag' = s.remaining_dag
    /\ edge_sets' = s.edge_sets
    /\ pruning' = s.pruning
    /\ fallback' = s.fallback
    /\ UNCHANGED <<physical_qubits, device_graph, physical_distances, circuit,
                   logical_qubits, max_search_radius, call_vars>>

\* route with a do-while loop: the first apply_next_swaps runs before the
\* remaining graph is tested
RouteApplyPossibleOps_do_while ==
    /\ pc = "draining"
    /\ LET s == apply_possible_ops(Self)
       IN /\ Assign(s)
          /\ pc' = IF s.error THEN "error"
                   ELSE IF s.remaining_dag # {} \/ seen = {} THEN "searching"
                   ELSE IF are_ops_consistent_with_device_graph(
                               s.physical_ops, device_graph)
                        THEN "done" ELSE "error"
    /\ UNCHANGED <<seen, placement_vars>>

\* route: apply_possible_ops, then the loop test (lines 256-257, 259-261)
RouteApplyPossibleOps ==
    /\ pc = "draining"
    /\ LET s == apply_possible_ops(Self)
       IN /\ Assign(s)
          /\ pc' = IF s.error THEN "error"
                   ELSE IF s.remaining_dag # {} THEN "searching"
                   ELSE IF are_ops_consistent_with_device_graph(
                               s.physical_ops, device_graph)
                        THEN "done" ELSE "error"
    /\ UNCHANGED <<seen, placement_vars>>

\* route: apply_next_swaps in the loop (line 258). A run that is back at a
\* swap search with a mapping and a remaining graph it already searched from
\* repeats from there; it is followed up to that state and no further.
RouteApplyNextSwaps ==
    /\ pc = "searching"
    /\ <<phys_to_log, remaining_dag>> \notin seen
    /\ \E s \in apply_next_swaps(Self) :
          /\ Assign(s)
          /\ pc' = IF s.error THEN "error" ELSE "draining"
    /\ seen' = seen \cup {<<phys_to_log, remaining_dag>>}
    /\ UNCHANGED placement_vars

Next == RouteApplyPossibleOps \/ RouteApplyNextSwaps

\* every device shape on up to NSites sites
Init == Construct([n \in 1..NSites |-> DeviceGraphs(n)])

Spec == Init /\ [][Next]_vars

\* the same router on the line of NLineSites sites
InitLine == Construct([n \in {NLineSites} |-> {Line(n)}])

SpecLine == InitLine /\ [][Next]_vars

\* the circuits whose first layer has two pairs: operations on two disjoint
\* pairs and a third two-qubit operation
TwoPairCircuits ==
    {c \in {<<<<1, 2>>, <<3, 4>>, op>> :
                op \in {e \in Operations : Len(e) = 2}} : FirstUseOrder(c)}

\* the router on these circuits and the line of NLineSites sites
InitSearch ==
    /\ RouterFieldsOf([n \in {NLineSites} |-> {Line(n)}],
                      Fitting(TwoPairCircuits))
    /\ \E given \in ValidMappings(logical_qubits) : CallerMapping(given)

SpecSearch == InitSearch /\ [][Next]_vars

\* the router on lines, rings and paws: on a paw two sites that are not
\* adjacent are joined by paths of different lengths
FallbackDevices == [n \in 1..NSites |-> {Line(n), Ring(n), Paw(n)}]

InitFallback == Construct(FallbackDevices)

SpecFallback == InitFallback /\ [][Next]_vars

\* a device of ten sites: the ring 2-7-5-8, a leaf on each of its sites
\* (1 on 2, 3 on 7, 4 on 5, 6 on 8) and the tail 5-10-9
Pinwheel ==
    {<<1, 2>>, <<2, 7>>, <<2, 8>>, <<3, 7>>, <<4, 5>>, <<5, 7>>, <<5, 8>>,
     <<5, 10>>, <<6, 8>>, <<9, 10>>}

\* four operations on four disjoint pairs of qubits
FourPairCircuit == <<<<1, 2>>, <<3, 4>>, <<5, 6>>, <<7, 8>>>>

\* an initial mapping, site -> qubit, with one qubit of each pair on a site
\* of the ring and the other on the leaf of the next site around the ring;
\* sites 9 and 10 are unfilled
AroundTheRing ==
    [p \in 1..8 |-> <<8, 3, 4, 2, 5, 6, 1, 7>>[p]]

\* a mapping with the occupants of sites p and q exchanged
Exchanged(given, p, q) ==
    LET occupant(x) == IF x \in DOMAIN given THEN given[x] ELSE None
        moved == [x \in DOMAIN given \cup {p, q} |->
                     IF x = p THEN occupant(q)
                     ELSE IF x = q THEN occupant(p) ELSE occupant(x)]
    IN [x \in {y \in DOMAIN moved : moved[y] # None} |-> moved[x]]

\* the router on this device and circuit, with the mapping above or one that
\* differs from it on two sites
InitPinwheel ==
    /\ RouterFieldsOf([n \in {Cardinality(UNION {Range(e) : e \in Pinwheel})}
                          |-> {Pinwheel}],
                      {FourPairCircuit})
    /\ \E p, q \in physical_qubits :
           CallerMapping(Exchanged(AroundTheRing, p, q))

SpecPinwheel == InitPinwheel /\ [][Next]_vars

\* ------------------------------------------------- get_initial_mapping
RECURSIVE Sum(_)
\* the sum of the values of a function
Sum(f) ==
    IF DOMAIN f = {} THEN 0
    ELSE LET x == CHOOSE x \in DOMAIN f : TRUE
         IN f[x] + Sum([y \in DOMAIN f \ {x} |-> f[y]])

RECURSIVE Product(_)
Product(f) ==
    IF DOMAIN f = {} THEN 1
    ELSE LET x == CHOOSE x \in DOMAIN f : TRUE
         IN f[x] * Product([y \in DOMAIN f \ {x} |-> f[y]])

\* graph[a]: the neighbours of a in the graph with vertices V and edges E
Adjacency(V, E, a) == {b \in V : <<a, b>> \in E \/ <<b, a>> \in E}

RECURSIVE Within(_, _, _, _)
Within(V, E, a, n) ==
    IF n = 0 THEN {a}
    ELSE LET B == Within(V, E, a, n - 1)
         IN B \cup UNION {Adjacency(V, E, b) : b \in B}

RECURSIVE PathsBetween(_, _, _, _, _)
PathsBetween(V, E, u, v, d) ==
    IF d = 0 THEN (IF u = v THEN {<<u>>} ELSE {})
    ELSE UNION {{<<u>> \o p : p \in PathsBetween(V, E, w, v, d - 1)} :
                    w \in Adjacency(V, E, u)}

\* all the shortest paths between two connected vertices
AllShortestPaths(V, E, u, v) ==
    LET d == CHOOSE n \in 0..Cardinality(V) :
                 /\ v \in Within(V, E, u, n)
                 /\ (n = 0 \/ v \notin Within(V, E, u, n - 1))
    IN PathsBetween(V, E, u, v, d)

\* nx.betweenness_centrality(graph), every value multiplied by the same
\* positive number, which makes them integers: the sum over the connected
\* pairs s, t of the share of the shortest s-t paths that pass through v
betweenness_centrality(V, E) ==
    LET pairs == {p \in V \X V :
                     p[1] < p[2] /\ p[2] \in Within(V, E, p[1], Cardinality(V))}
        paths == [p \in pairs |-> AllShortestPaths(V, E, p[1], p[2])]
        sigma == [p \in pairs |-> Cardinality(paths[p])]
        scale == Product(sigma)
    IN [v \in V |->
           Sum([p \in {q \in pairs : q[1] # v /\ q[2] # v} |->
                   Cardinality({path \in paths[p] : v \in Range(path)})
                       * (scale \div sigma[p])])]

\* get_center: a vertex of maximum centrality. Which of several the code
\* returns depends on the iteration order of the graph's vertices, which the
\* source does not fix: any of them.
get_center(V, E) ==
    LET centralities == betweenness_centrality(V, E)
    IN {v \in V : \A w \in V : centralities[w] <= centralities[v]}

\* logical_graph of set_initial_mapping (lines 139-140): the pairs of the
\* first timeslice, on all the logical qubits
LogicalGraphEdges == Range(get_timeslices(circuit, remaining_dag)[1])

\* __init__ without initial_mapping: nothing is mapped yet
NoMapping ==
    /\ initial_mapping = <<>>
    /\ phys_to_log = <<>>
    /\ log_to_phys = <<>>
    /\ mapping = <<>>
    /\ unplaced_vertices = {}
    /\ pc = "centering"

RouterUnchanged ==
    UNCHANGED <<physical_qubits, device_graph, physical_distances, circuit,
                logical_qubits, max_search_radius, remaining_dag, edge_sets,
                physical_ops, pruning, fallback, seen, call_vars>>

\* set_initial_mapping lines 138-140 and get_initial_mapping lines 38-44
PlaceCenters ==
    /\ pc = "centering"
    /\ IF get_timeslices(circuit, remaining_dag) = <<>>
       THEN /\ pc' = "error"
            /\ UNCHANGED placement_vars
       ELSE \E frontier_center \in get_center(logical_qubits,
                                               LogicalGraphEdges) :
            \E device_center \in get_center(physical_qubits, device_graph) :
                /\ mapping' = Put(<<>>, device_center, frontier_center)
                /\ unplaced_vertices' = logical_qubits \ {frontier_center}
                /\ pc' = "placing"
    /\ UNCHANGED <<initial_mapping, phys_to_log, log_to_phys>>
    /\ RouterUnchanged

\* the candidates of one round (lines 52-62)
Candidates ==
    LET placed_vertices == Range(mapping)
        frontier_edges == LogicalGraphEdges
        nums_placed_neighbors ==
            [v \in unplaced_vertices |->
                Cardinality(placed_vertices
                    \cap Adjacency(logical_qubits, frontier_edges, v))]
    IN {v \in unplaced_vertices :
           \A w \in unplaced_vertices :
               nums_placed_neighbors[w] <= nums_placed_neighbors[v]}

\* a border of every unused site, next to a used one or not
Border_any_unused == physical_qubits \ DOMAIN mapping

\* the border of one round (lines 64-67)
Border ==
    UNION {Adjacency(physical_qubits, device_graph, v) : v \in DOMAIN mapping}
        \ DOMAIN mapping

\* total_distances with the sign turned: the best border site is the
\* nearest one
TotalDistances_nearest(candidates, border) ==
    [lp \in candidates \X border |->
        0 - Sum([pp \in DOMAIN mapping |-> physical_distances[<<lp[2], pp>>]])]

\* total_distances (lines 68-73); the physical_distances of lines 46-50 are
\* computed as the router's are (greedy.py, lines 72-76)
TotalDistances(candidates, border) ==
    [lp \in candidates \X border |->
        Sum([pp \in DOMAIN mapping |-> physical_distances[<<lp[2], pp>>]])]

\* one round of the loop that leaves the loop when the border is empty:
\* the mapping so far is returned
PlaceNext_partial ==
    /\ pc = "placing"
    /\ unplaced_vertices # {}
    /\ LET total_distances == TotalDistances(Candidates, Border)
           best_candidates ==
               {lp \in DOMAIN total_distances :
                   \A other \in DOMAIN total_distances :
                       total_distances[other] <= total_distances[lp]}
       IN IF DOMAIN total_distances = {}
          THEN /\ pc' = "placing"
               /\ mapping' = mapping
               /\ unplaced_vertices' = {}
          ELSE \E lp \in best_candidates :
                   IF lp[2] \in DOMAIN mapping \/ lp[1] \in Range(mapping)
                   THEN /\ pc' = "error"
                        /\ UNCHANGED placement_vars
                   ELSE /\ mapping' = Put(mapping, lp[2], lp[1])
                        /\ unplaced_vertices' = unplaced_vertices \ {lp[1]}
                        /\ pc' = "placing"
    /\ UNCHANGED <<initial_mapping, phys_to_log, log_to_phys>>
    /\ RouterUnchanged

\* one round of the loop of get_initial_mapping (lines 51-82)
PlaceNext ==
    /\ pc = "placing"
    /\ unplaced_vertices # {}
    /\ LET total_distances == TotalDistances(Candidates, Border)
           best_candidates ==
               {lp \in DOMAIN total_distances :
                   \A other \in DOMAIN total_distances :
                       total_distances[other] <= total_distances[lp]}
       IN IF DOMAIN total_distances = {}
          THEN /\ pc' = "error"
               /\ UNCHANGED placement_vars
          ELSE \E lp \in best_candidates :
                   IF lp[2] \in DOMAIN mapping \/ lp[1] \in Range(mapping)
                   THEN /\ pc' = "error"
                        /\ UNCHANGED placement_vars
                   ELSE /\ mapping' = Put(mapping, lp[2], lp[1])
                        /\ unplaced_vertices' = unplaced_vertices \ {lp[1]}
                        /\ pc' = "placing"
    /\ UNCHANGED <<initial_mapping, phys_to_log, log_to_phys>>
    /\ RouterUnchanged

\* get_initial_mapping returns (line 83) and set_initial_mapping installs
\* its mapping (lines 143-150)
InstallMapping ==
    /\ pc = "placing"
    /\ unplaced_vertices = {}
    /\ LET s == set_initial_mapping(mapping)
       IN /\ initial_mapping' = s.initial_mapping
          /\ phys_to_log' = s.phys_to_log
          /\ log_to_phys' = s.log_to_phys
          /\ pc' = IF mapping_consistency(s.log_to_phys, s.phys_to_log,
                                          logical_qubits)
                   THEN "draining" ELSE "error"
    /\ UNCHANGED placement_vars
    /\ RouterUnchanged

\* set_initial_mapping without initial_mapping
NextPlacement == PlaceCenters \/ PlaceNext \/ InstallMapping

\* route_circuit_greedily, the placement included
NextGreedy ==
    \/ PlaceCenters
    \/ PlaceNext
    \/ InstallMapping
    \/ RouteApplyPossibleOps
    \/ RouteApplyNextSwaps

\* no initial_mapping is given: every device shape on up to NSites sites
InitGreedy ==
    /\ RouterFields(PlacementDevices)
    /\ NoMapping

\* the constructor alone, which max_search_radius has no part in
InitPlacement == InitGreedy /\ max_search_radius = 1

SpecPlacement == InitPlacement /\ [][NextPlacement]_vars

SpecGreedy == InitGreedy /\ [][NextGreedy]_vars

\* ------------------------------------------------- get_edge_sets alone
\* a router of the empty circuit on any device shape, the graphs without
\* edges included
InitEdgeSets ==
    /\ \E n \in 1..NSites :
           /\ physical_qubits = 1..n
           /\ device_graph \in DeviceGraphs(n) \cup {{}}
    /\ physical_distances = ShortestPathLength(device_graph)
    /\ circuit = <<>>
    /\ remaining_dag = {}
    /\ logical_qubits = {}
    /\ edge_sets = <<>>
    /\ physical_ops = <<>>
    /\ max_search_radius = 1
    /\ pruning = <<>>
    /\ fallback = NoFallback
    /\ seen = {}
    /\ NoCall
    /\ CallerMapping(<<>>)

\* a call of get_edge_sets, for any size
CallGetEdgeSets ==
    /\ pc = "draining"
    /\ \E edge_set_size \in 1..NSites :
           Assign(get_edge_sets(Self, edge_set_size))
    /\ UNCHANGED <<pc, seen, placement_vars>>

NextEdgeSets == CallGetEdgeSets

SpecEdgeSets == InitEdgeSets /\ [][NextEdgeSets]_vars

\* ------------------------------------------------- update_mapping alone
\* the circuits of one-qubit operations, each on a qubit of its own
OneQubitCircuits == {[i \in 1..n |-> <<i>>] : n \in 0..MaxOps}

\* a line and one more site, which no edge connects to it
Detached(n) == Line(n - 1)

\* a router of such a circuit on any device shape, connected or not, with
\* any valid mapping
InitUpdateMapping ==
    /\ RouterFieldsOf([n \in 1..NSites |-> DeviceGraphs(n) \cup {Detached(n)}],
                      Fitting(OneQubitCircuits))
    /\ \E given \in ValidMappings(logical_qubits) : CallerMapping(given)

\* a call of update_mapping with one edge of the device, in either direction
CallUpdateMapping ==
    /\ pc = "draining"
    /\ \E physical_edge \in physical_qubits \X physical_qubits :
           /\ InEdges(device_graph, physical_edge)
           /\ Assign(update_mapping(Self, <<physical_edge>>))
    /\ UNCHANGED <<pc, seen, placement_vars>>

NextUpdateMapping == CallUpdateMapping

SpecUpdateMapping == InitUpdateMapping /\ [][NextUpdateMapping]_vars

\* a qubit that is not in the circuit
Stranger(logical) == Cardinality(logical) + 1

\* whatever a caller can pass as initial_mapping: sites to qubits of the
\* circuit or not, one to one or not
AnyMappings(logical) ==
    UNION {[D -> logical \cup {Stranger(logical)}] :
               D \in SUBSET physical_qubits}

Edgeless(n) == {}

\* the devices of the calls with any arguments: the lines and the graphs
\* without edges on up to NCallerSites sites
CallerDevices == [n \in 1..NCallerSites |-> {Line(n), Edgeless(n)}]

\* any initial_mapping, or none
InitRoute ==
    /\ RouterFields(CallerDevices)
    /\ \/ NoMapping
       \/ \E given \in AnyMappings(logical_qubits) : CallerMapping(given)

SpecRoute == InitRoute /\ [][NextGreedy]_vars

\* the placement for any circuit, also one with more qubits than the device
\* has sites, on the lines and the graphs without edges
InitCrowded ==
    /\ RouterFieldsOf(CallerDevices, Circuits)
    /\ max_search_radius = 1
    /\ NoMapping

SpecCrowded == InitCrowded /\ [][NextPlacement]_vars

\* ------------------------------------------- _get_dominated_indices alone
Vectors(n) == [1..n -> 0..MaxEntry]

VectorLists ==
    UNION {UNION {[1..m -> Vectors(n)] : m \in 0..MaxVectors} :
               n \in 0..MaxVectorLen}

\* no router: only the arguments of a call
InitDominated ==
    /\ physical_qubits = {}
    /\ device_graph = {}
    /\ physical_distances = <<>>
    /\ circuit = <<>>
    /\ logical_qubits = {}
    /\ max_search_radius = 1
    /\ remaining_dag = {}
    /\ edge_sets = <<>>
    /\ physical_ops = <<>>
    /\ initial_mapping = <<>>
    /\ phys_to_log = <<>>
    /\ log_to_phys = <<>>
    /\ pruning = <<>>
    /\ fallback = NoFallback
    /\ seen = {}
    /\ pc = "call"
    /\ mapping = <<>>
    /\ unplaced_vertices = {}
    /\ call_vectors \in VectorLists
    /\ call_result = {}
    /\ call_n_qubits = 0
    /\ call_edge_labels = <<>>
    /\ call_device = NoDevice
    /\ NoCrosstalkCall

CallGetDominatedIndices ==
    /\ pc = "call"
    /\ call_result' = get_dominated_indices(call_vectors)
    /\ pc' = "returned"
    /\ UNCHANGED <<physical_qubits, device_graph, physical_distances, circuit,
                   logical_qubits, max_search_radius, remaining_dag,
                   edge_sets, physical_ops, initial_mapping, phys_to_log,
                   log_to_phys, pruning, fallback, seen, placement_vars,
                   call_vectors, call_n_qubits, call_edge_labels, call_device,
                   call_crosstalk_graph, call_operation,
                   call_other_operations>>

NextDominated == CallGetDominatedIndices

SpecDominated == InitDominated /\ [][NextDominated]_vars

\* ------------------------------------- uniform_undirected_linear_device
\* an edge label: None or a device edge
Labels == {None, None + 1}

SetMin(S) == CHOOSE x \in S : \A y \in S : x <= y
SetMax(S) == CHOOSE x \in S : \A y \in S : y <= x

\* line.LineQubit.range(i, j) as a frozenset: the sites i .. j - 1
LineQubitRange(i, j) == i..(j - 1)

\* uniform_undirected_graph_device
uniform_undirected_graph_device(edges, edge_label) ==
    [labelled_edges |-> [e \in edges |-> edge_label]]

\* UndirectedGraphDevice.__iadd__: the edges of both, with other's labels
DeviceSum(d, other) ==
    [labelled_edges |->
        [e \in DOMAIN d.labelled_edges \cup DOMAIN other.labelled_edges |->
            IF e \in DOMAIN other.labelled_edges
            THEN other.labelled_edges[e] ELSE d.labelled_edges[e]]]

\* UndirectedGraphDevice.edges, .vertices
DeviceEdges(d) == DOMAIN d.labelled_edges
DeviceVertices(d) == UNION DeviceEdges(d)

RECURSIVE AddEdgesOfArities(_, _, _, _)
\* the loop over edge_labels.items() (lines 65-68)
AddEdgesOfArities(d, n_qubits, edge_labels, arities) ==
    IF arities = {} THEN d
    ELSE LET arity == SetMin(arities)
             edges == {LineQubitRange(i, i + arity) :
                           i \in 0..(n_qubits - arity)}
         IN AddEdgesOfArities(
                DeviceSum(d, uniform_undirected_graph_device(
                                 edges, edge_labels[arity])),
                n_qubits, edge_labels, arities \ {arity})

\* uniform_undirected_linear_device raising only when every key is below 1
uniform_undirected_linear_device_max(n_qubits, edge_labels) ==
    IF DOMAIN edge_labels # {} /\ SetMax(DOMAIN edge_labels) < 1
    THEN [raised |-> TRUE, device |-> NoDevice]
    ELSE [raised |-> FALSE,
          device |-> AddEdgesOfArities(NoDevice, n_qubits, edge_labels,
                                       DOMAIN edge_labels)]

\* uniform_undirected_linear_device
uniform_undirected_linear_device(n_qubits, edge_labels) ==
    IF DOMAIN edge_labels # {} /\ SetMin(DOMAIN edge_labels) < 1
    THEN [raised |-> TRUE, device |-> NoDevice]
    ELSE [raised |-> FALSE,
          device |-> AddEdgesOfArities(NoDevice, n_qubits, edge_labels,
                                       DOMAIN edge_labels)]

\* no router: only the arguments of a call
InitLinear ==
    /\ physical_qubits = {}
    /\ device_graph = {}
    /\ physical_distances = <<>>
    /\ circuit = <<>>
    /\ logical_qubits = {}
    /\ max_search_radius = 1
    /\ remaining_dag = {}
    /\ edge_sets = <<>>
    /\ physical_ops = <<>>
    /\ initial_mapping = <<>>
    /\ phys_to_log = <<>>
    /\ log_to_phys = <<>>
    /\ pruning = <<>>
    /\ fallback = NoFallback
    /\ seen = {}
    /\ mapping = <<>>
    /\ unplaced_vertices = {}
    /\ call_vectors = <<>>
    /\ call_result = {}
    /\ pc = "call"
    /\ call_n_qubits \in (0 - 1)..MaxLineQubits
    /\ call_edge_labels \in
           UNION {[K -> Labels] : K \in SUBSET ((0 - 1)..MaxArity)}
    /\ call_device = NoDevice
    /\ NoCrosstalkCall

CallUniformUndirectedLinearDevice ==
    /\ pc = "call"
    /\ LET r == uniform_undirected_linear_device(call_n_qubits,
                                                 call_edge_labels)
       IN /\ call_device' = r.device
          /\ pc' = IF r.raised THEN "raised" ELSE "returned"
    /\ UNCHANGED <<physical_qubits, device_graph, physical_distances, circuit,
                   logical_qubits, max_search_radius, remaining_dag,
                   edge_sets, physical_ops, initial_mapping, phys_to_log,
                   log_to_phys, pruning, fallback, seen, placement_vars,
                   call_vectors, call_result, call_n_qubits,
                   call_edge_labels, call_crosstalk_graph, call_operation,
                   call_other_operations>>

NextLinear == CallUniformUndirectedLinearDevice

SpecLinear == InitLinear /\ [][NextLinear]_vars

\* ---------------------------- UndirectedGraphDevice.validate_crosstalk
\* a label of the crosstalk graph: None, a function that raises nothing, a
\* function that raises
CrosstalkLabels == {None, None + 1, None + 2}
RaisingLabel == None + 2

\* the device edges: the pairs of neighbouring sites of a line
LineDeviceEdges == {{a, a + 1} : a \in 1..(MaxCrosstalkSites - 1)}

\* the crosstalk graphs: up to MaxCrosstalkEdges labelled edges, each a set
\* of two or more device edges
CrosstalkGraphs ==
    {[labelled_edges |-> labelled] : labelled \in
        UNION {[K -> CrosstalkLabels] :
                   K \in {X \in SUBSET {Y \in SUBSET LineDeviceEdges :
                                            Cardinality(Y) >= 2} :
                              Cardinality(X) <= MaxCrosstalkEdges}}}

\* the operations on a device edge, as the tuple of their qubits
EdgeOperations == {<<a, a + 1>> : a \in 1..(MaxCrosstalkSites - 1)}

\* UndirectedGraphDevice.get_vertices
get_vertices(operation) == Range(operation)

\* UndirectedHypergraph._adjacency_lists.get(vertex, ()): the edges of the
\* graph the vertex is in
AdjacencyLists(graph, vertex) ==
    {edge \in DOMAIN graph.labelled_edges : vertex \in edge}

\* UndirectedGraphDevice.validate_crosstalk: TRUE when it raises. With a
\* None label the conditional expression of line 217 calls
\* raise_crosstalk_error while the validator is being chosen.
validate_crosstalk(crosstalk_graph, operation, other_operations) ==
    LET vertices == get_vertices(operation)
        adjacent_crosstalk_edges == AdjacencyLists(crosstalk_graph, vertices)
    IN \E crosstalk_edge \in adjacent_crosstalk_edges :
           LET label == crosstalk_graph.labelled_edges[crosstalk_edge]
           IN \/ label = None
              \/ /\ label = RaisingLabel
                 /\ Combinations(other_operations,
                                 Cardinality(crosstalk_edge) - 1) # <<>>

\* no router: only a crosstalk graph and the arguments of a call
InitCrosstalk ==
    /\ physical_qubits = {}
    /\ device_graph = {}
    /\ physical_distances = <<>>
    /\ circuit = <<>>
    /\ logical_qubits = {}
    /\ max_search_radius = 1
    /\ remaining_dag = {}
    /\ edge_sets = <<>>
    /\ physical_ops = <<>>
    /\ initial_mapping = <<>>
    /\ phys_to_log = <<>>
    /\ log_to_phys = <<>>
    /\ pruning = <<>>
    /\ fallback = NoFallback
    /\ seen = {}
    /\ mapping = <<>>
    /\ unplaced_vertices = {}
    /\ call_vectors = <<>>
    /\ call_result = {}
    /\ call_n_qubits = 0
    /\ call_edge_labels = <<>>
    /\ call_device = NoDevice
    /\ pc = "call"
    /\ call_crosstalk_graph \in CrosstalkGraphs
    /\ call_operation \in EdgeOperations
    /\ call_other_operations \in
           UNION {[1..n -> EdgeOperations] : n \in 0..MaxOtherOperations}

CallValidateCrosstalk ==
    /\ pc = "call"
    /\ pc' = IF validate_crosstalk(call_crosstalk_graph, call_operation,
                                   call_other_operations)
             THEN "raised" ELSE "returned"
    /\ UNCHANGED <<physical_qubits, device_graph, physical_distances, circuit,
                   logical_qubits, max_search_radius, remaining_dag,
                   edge_sets, physical_ops, initial_mapping, phys_to_log,
                   log_to_phys, pruning, fallback, seen, placement_vars,
                   call_vars>>

NextCrosstalk == CallValidateCrosstalk

SpecCrosstalk == InitCrosstalk /\ [][NextCrosstalk]_vars

\* ================================================================ claims
RouterState == pc \in {"draining", "searching", "done"}

IsSwap(i) == physical_ops[i].gate = "SWAP"
IsOp(i) == physical_ops[i].gate = "op"

C2_OutputOnDeviceEdges ==
    \A i \in DOMAIN physical_ops :
        Len(physical_ops[i].qubits) = 2
            => InEdges(device_graph, physical_ops[i].qubits)

\* SWAPs of the fallback and a translated two-qubit operation are in the output
C2_Witness ==
    /\ pc = "done"
    /\ fallback.farthest_pair # <<>>
    /\ \E i, j \in DOMAIN physical_ops :
           /\ i < j
           /\ IsSwap(i)
           /\ IsOp(j)
           /\ Len(physical_ops[j].qubits) = 2

\* C3: route() terminates: the loop never comes back to a swap search with
\* the mapping and the remaining graph of an earlier swap search.
C3_NoRepeatedSearchState ==
    ~(pc = "searching" /\ <<phys_to_log, remaining_dag>> \in seen)

RECURSIVE MustPrecede(_, _)
\* b must happen after a: a path of dependency edges from a to b
MustPrecede(a, b) ==
    /\ a < b
    /\ \/ ~can_reorder(circuit[a], circuit[b])
       \/ \E m \in (a + 1)..(b - 1) :
              MustPrecede(a, m) /\ ~can_reorder(circuit[m], circuit[b])

\* C4: the output respects the dependency order: an operation is removed
\* only after its prerequisites, and its copy comes after theirs.
C4_DependencyOrder ==
    \A a, b \in DOMAIN circuit :
        MustPrecede(a, b) =>
            /\ a \in remaining_dag => b \in remaining_dag
            /\ \A j \in DOMAIN physical_ops :
                   (IsOp(j) /\ physical_ops[j].node = b) =>
                       \E i \in 1..(j - 1) :
                           IsOp(i) /\ physical_ops[i].node = a

InitialSite(l) == CHOOSE p \in DOMAIN initial_mapping : initial_mapping[p] = l

\* the second operation was on adjacent sites from the start, the first,
\* one of its prerequisites, was not and had to wait for a SWAP
C4_Witness ==
    /\ pc = "done"
    /\ Len(circuit) = 2
    /\ Len(circuit[1]) = 2
    /\ Len(circuit[2]) = 2
    /\ MustPrecede(1, 2)
    /\ InEdges(device_graph,
               <<InitialSite(circuit[2][1]), InitialSite(circuit[2][2])>>)
    /\ IsSwap(1)

\* C5: at done the remaining graph is empty and the output holds exactly
\* one translated copy of every operation of the circuit, all the rest SWAPs.
C5_EveryOperationOnce ==
    pc = "done" =>
        /\ remaining_dag = {}
        /\ \A n \in DOMAIN circuit :
               Cardinality({i \in DOMAIN physical_ops :
                                IsOp(i) /\ physical_ops[i].node = n}) = 1
        /\ \A i \in DOMAIN physical_ops :
               \/ IsSwap(i)
               \/ /\ IsOp(i)
                  /\ physical_ops[i].node \in DOMAIN circuit
                  /\ Len(physical_ops[i].qubits)
                         = Len(circuit[physical_ops[i].node])

C5_Witness ==
    /\ pc = "done"
    /\ Len(circuit) = 2
    /\ Len(physical_ops) > 2
    /\ \E i \in DOMAIN physical_ops : IsSwap(i)

\* the arguments apply_next_swaps gives get_distance_vector in this state
Measurements ==
    {<<timeslice, swap_set>> :
        timeslice \in Range(get_timeslices(circuit, remaining_dag)),
        swap_set \in UNION {Range(Matchings(SortedSeq(device_graph), k)) :
                                k \in 1..max_search_radius}}

\* C6: get_distance_vector leaves phys_to_log, log_to_phys and the output
\* (every field of the router) as they were, for every matching and every
\* timeslice's logical edges.
C6_MeasurementRestoresMapping ==
    pc = "searching" =>
        \A m \in Measurements :
            get_distance_vector(Self, m[1], m[2]).self = Self

\* a two-edge matching that moves two qubits and changes a distance
C6_Witness ==
    /\ pc = "searching"
    /\ \E m \in Measurements :
           /\ Len(m[2]) = 2
           /\ \A i \in 1..2 : \E j \in 1..2 : phys_to_log[m[2][i][j]] # None
           /\ \E i \in 1..Len(m[1]) :
                  get_distance_vector(Self, m[1], m[2]).distance_vector[i]
                      # distance(Self, m[1][i])

\* C7: _get_dominated_indices returns exactly the indices i such that some
\* vector at another index j is element-wise <= vector i.
C7_DominatedExactly ==
    pc = "returned" =>
        call_result =
            {i \in 1..Len(call_vectors) :
                \E j \in 1..Len(call_vectors) :
                    /\ j # i
                    /\ \A n \in 1..Len(call_vectors[i]) :
                           call_vectors[j][n] <= call_vectors[i][n]}

\* two equal vectors, both reported, beside a vector that is not
C7_Witness ==
    /\ pc = "returned"
    /\ \E i, j, k \in 1..Len(call_vectors) :
           /\ i # j
           /\ call_vectors[i] = call_vectors[j]
           /\ {i, j} \subseteq call_result
           /\ k \notin call_result

\* C8 as claimed: no pruning of a non-empty candidate list leaves it empty.
C8_PruningNeverEmpties ==
    \A i \in DOMAIN pruning :
        Len(pruning[i].vectors) > 0 => pruning[i].kept > 0

\* C8 as amended: a pruning that empties a non-empty candidate list had two
\* candidates with the same distance vector.
C8_EmptiedOnlyByTie ==
    \A i \in DOMAIN pruning :
        (Len(pruning[i].vectors) > 0 /\ pruning[i].kept = 0) =>
            \E a, b \in 1..Len(pruning[i].vectors) :
                a # b /\ pruning[i].vectors[a] = pruning[i].vectors[b]

\* a pruning emptied the list, another one of the same search did not
C8_Witness ==
    /\ pc = "draining"
    /\ \E i, j \in DOMAIN pruning :
           /\ Len(pruning[i].vectors) > 1
           /\ pruning[i].kept = 0
           /\ pruning[j].kept > 0

\* C9: the pair the fallback routes is at the maximum distance among the
\* pairs it was given.
C9_FarthestPairRouted ==
    fallback.farthest_pair # <<>> =>
        \E i \in 1..Len(fallback.pairs) :
            /\ fallback.pairs[i] = fallback.farthest_pair
            /\ \A j \in 1..Len(fallback.pairs) :
                   fallback.distances[j] <= fallback.distances[i]

\* C10: initial_mapping is the mapping in force before anything was
\* emitted, and no step changes it.
C10_InitialMappingKept ==
    /\ [](physical_ops = <<>> =>
            \A p \in physical_qubits :
                phys_to_log[p] =
                    IF p \in DOMAIN swap_network(Self).initial_mapping
                    THEN swap_network(Self).initial_mapping[p] ELSE None)
    /\ [][initial_mapping' = initial_mapping]_vars

\* done, with a final mapping that is not the initial one
C10_Witness ==
    /\ pc = "done"
    /\ \E i \in DOMAIN physical_ops : IsSwap(i)
    /\ \E p \in DOMAIN initial_mapping : phys_to_log[p] # initial_mapping[p]

\* what the mapping invariants forbid in an initial mapping
OmitsOperand(m) == \E l \in logical_qubits : l \notin Range(m)
PlacesStranger(m) == \E p \in DOMAIN m : m[p] \notin logical_qubits
PlacesTwice(m) == \E p, q \in DOMAIN m : p # q /\ m[p] = m[q]

\* C11: a caller's initial mapping that omits a logical qubit of the
\* circuit, places a qubit that is not in the circuit, or places one qubit
\* on two sites is rejected by the constructor: no routing step is taken.
C11_InvalidMappingRejected ==
    (/\ pc \notin {"centering", "placing"}
     /\ \/ OmitsOperand(initial_mapping)
        \/ PlacesStranger(initial_mapping)
        \/ PlacesTwice(initial_mapping))
        => pc = "error"

TwoOperandOnEdgeless ==
    /\ device_graph = {}
    /\ \E i \in DOMAIN circuit : Len(circuit[i]) = 2

\* C12: on a device graph without edges a circuit with a two-qubit
\* operation is never routed to the end: the placement, when the mapping is
\* computed, or the first swap search, when it is given, raises.
C12_EdgelessDeviceRaises ==
    /\ [](TwoOperandOnEdgeless => pc # "done")
    /\ [][(TwoOperandOnEdgeless /\ pc \in {"placing", "searching"})
              => pc' = "error"]_vars
    /\ [][(TwoOperandOnEdgeless /\ pc = "draining")
              => (seen = {} /\ pc' \in {"searching", "error"})]_vars

\* the first swap search raised, on a mapping the caller gave
C12_Witness ==
    /\ TwoOperandOnEdgeless
    /\ pc = "error"
    /\ seen # {}
    /\ physical_ops = <<>>

\* the device A-B-C as 1-2-3, one operation on (x, z) as (1, 2), the
\* default max_search_radius
OnPathABC ==
    /\ physical_qubits = 1..3
    /\ device_graph = Line(3)
    /\ circuit = << <<1, 2>> >>
    /\ max_search_radius = 1

\* exactly one SWAP, on (A, B) or (B, C), then the operation on an edge,
\* then nothing more
OneSwapThenOperation ==
    /\ pc \in {"draining", "searching", "done"}
    /\ pc = "searching" => seen = {}
    /\ (pc = "draining" /\ seen # {})
           => apply_possible_ops(Self).remaining_dag = {}
    /\ pc = "done" =>
           /\ Len(physical_ops) = 2
           /\ IsSwap(1)
           /\ physical_ops[1].qubits \in {<<1, 2>>, <<2, 1>>, <<2, 3>>, <<3, 2>>}
           /\ IsOp(2)
           /\ InEdges(device_graph, physical_ops[2].qubits)

\* C13 as claimed: with x on A, y on B and z on C the run emits one SWAP
\* and the operation, and terminates.
C13_OneSwapWithBystander ==
    (OnPathABC /\ initial_mapping = (1 :> 1 @@ 2 :> 3 @@ 3 :> 2))
        => OneSwapThenOperation

\* C13 as amended: with x on A, z on C and B unfilled (y, which is not in
\* the circuit, is not in the mapping) the run emits one SWAP and the
\* operation, and terminates.
C13_OneSwapOnPath ==
    (OnPathABC /\ initial_mapping = (1 :> 1 @@ 3 :> 2))
        => OneSwapThenOperation

C13_Witness ==
    /\ OnPathABC
    /\ initial_mapping = (1 :> 1 @@ 3 :> 2)
    /\ pc = "done"
    /\ fallback.farthest_pair = <<1, 2>>
    /\ Len(physical_ops) = 2

OnlySingleOperand == \A i \in DOMAIN circuit : Len(circuit[i]) = 1

\* C14: a circuit of one-qubit operations only is emitted whole by the
\* first apply_possible_ops: apply_next_swaps is never called and the output
\* has no SWAP.
C14_SingleOperandOnePass ==
    OnlySingleOperand =>
        /\ pc \in {"draining", "done"}
        /\ seen = {}
        /\ pc = "draining" =>
               /\ physical_ops = <<>>
               /\ apply_possible_ops(Self).remaining_dag = {}
        /\ pc = "done" =>
               /\ remaining_dag = {}
               /\ Len(physical_ops) = Len(circuit)
               /\ \A i \in DOMAIN physical_ops : IsOp(i)

\* two one-qubit operations on the same qubit, the second after the first
C14_Witness ==
    /\ OnlySingleOperand
    /\ pc = "done"
    /\ Len(circuit) = 2
    /\ circuit[1] = circuit[2]
    /\ Len(physical_ops) = 2
    /\ \E p \in physical_qubits : phys_to_log[p] = None

\* C15: the mapping get_initial_mapping builds is one to one from distinct
\* sites to logical qubits, at return every logical qubit is the value of
\* exactly one site, and set_initial_mapping turns it into a consistent
\* state with every site (None when unfilled) and every logical qubit as key.
C15_PlacementIsOneToOne ==
    /\ pc = "placing" =>
           /\ DOMAIN mapping \subseteq physical_qubits
           /\ \A p, q \in DOMAIN mapping : mapping[p] = mapping[q] => p = q
           /\ Range(mapping) = logical_qubits \ unplaced_vertices
    /\ (pc = "placing" /\ unplaced_vertices = {}) =>
           /\ \A l \in logical_qubits :
                  Cardinality({p \in DOMAIN mapping : mapping[p] = l}) = 1
           /\ LET s == set_initial_mapping(mapping)
              IN /\ DOMAIN s.phys_to_log = physical_qubits
                 /\ DOMAIN s.log_to_phys = logical_qubits
                 /\ \A p \in physical_qubits :
                        s.phys_to_log[p] =
                            IF p \in DOMAIN mapping THEN mapping[p] ELSE None
                 /\ \A l \in logical_qubits :
                        s.phys_to_log[s.log_to_phys[l]] = l
    /\ (pc = "draining" /\ physical_ops = <<>> /\ mapping # <<>>) =>
           /\ initial_mapping = mapping
           /\ DOMAIN phys_to_log = physical_qubits
           /\ DOMAIN log_to_phys = logical_qubits

\* three or more qubits placed and installed, a site left unfilled
C15_Witness ==
    /\ pc = "draining"
    /\ physical_ops = <<>>
    /\ initial_mapping = mapping
    /\ Cardinality(logical_qubits) >= 3
    /\ \E p \in physical_qubits : phys_to_log[p] = None

\* the sets of k device edges no two of which share a site
DisjointEdgeSets(k) ==
    {S \in SUBSET device_graph :
        /\ Cardinality(S) = k
        /\ \A e, f \in S : e # f => Range(e) \cap Range(f) = {}}

IsListOfDisjointEdgeSets(sets, k) ==
    /\ {Range(sets[i]) : i \in 1..Len(sets)} = DisjointEdgeSets(k)
    /\ \A i \in 1..Len(sets) :
           Len(sets[i]) = k /\ Cardinality(Range(sets[i])) = k
    /\ \A i, j \in 1..Len(sets) : Range(sets[i]) = Range(sets[j]) => i = j

\* C16: get_edge_sets(k) is the list of the sets of k pairwise disjoint
\* device edges, each of them once: both what the cache holds and what a
\* call for any k returns.
C16_EdgeSetsAreTheMatchings ==
    /\ \A k \in DOMAIN edge_sets : IsListOfDisjointEdgeSets(edge_sets[k], k)
    /\ \A k \in 1..NSites :
           IsListOfDisjointEdgeSets(get_edge_sets(Self, k).edge_sets[k], k)

\* sizes 1 and 2 were asked for on a device with several matchings of two
\* edges and with pairs of edges that share a site
C16_Witness ==
    /\ DOMAIN edge_sets = {1, 2}
    /\ Len(edge_sets[2]) >= 2
    /\ \E e, f \in device_graph : e # f /\ Range(e) \cap Range(f) # {}

\* positions i < j of the output hold operations of one readiness scan
SameScan(i, j) == i < j /\ \A k \in i..j : IsOp(k)

DependsOn(b, a) == a < b /\ ~can_reorder(circuit[a], circuit[b])

RegularLinearDevice ==
    /\ pc = "returned"
    /\ \E arity \in 1..call_n_qubits : DOMAIN call_edge_labels = {arity}

\* C19: with one arity, 1 <= arity <= n_qubits, the device has exactly
\* n_qubits - arity edges, each of arity consecutive sites of the line.
C19_LinearDeviceEdges ==
    RegularLinearDevice =>
        LET arity == SetMin(DOMAIN call_edge_labels)
        IN /\ Cardinality(DeviceEdges(call_device)) = call_n_qubits - arity
           /\ \A e \in DeviceEdges(call_device) :
                  \E i \in 0..(call_n_qubits - 1) : e = i..(i + arity - 1)

\* C20: a key of edge_labels below 1 makes the call raise and build no
\* device; empty edge_labels make it return a device without qubits and
\* without edges, for any n_qubits.
C20_LinearDeviceValueError ==
    pc \in {"raised", "returned"} =>
        /\ (\E arity \in DOMAIN call_edge_labels : arity < 1) =>
               (pc = "raised" /\ call_device = NoDevice)
        /\ DOMAIN call_edge_labels = {} =>
               /\ pc = "returned"
               /\ DeviceVertices(call_device) = {}
               /\ DeviceEdges(call_device) = {}

\* raised on keys of which one is below 1 and another is a valid arity
C20_Witness ==
    /\ pc = "raised"
    /\ call_n_qubits > 1
    /\ \E a, b \in DOMAIN call_edge_labels : a < 1 /\ b >= 1 /\ b <= call_n_qubits

\* the crosstalk edges labelled None that the operation's device edge is on
NoneLabelledEdgesOf(operation) ==
    {edge \in AdjacencyLists(call_crosstalk_graph, get_vertices(operation)) :
        call_crosstalk_graph.labelled_edges[edge] = None}

\* the other operations include one on every other device edge of the
\* crosstalk edge
OthersCover(crosstalk_edge) ==
    \A device_edge \in crosstalk_edge \ {get_vertices(call_operation)} :
        \E i \in DOMAIN call_other_operations :
            get_vertices(call_other_operations[i]) = device_edge

\* C21: a crosstalk edge labelled None forbids only simultaneous
\* operations: validate_crosstalk raises when the other operations include
\* operations on the other device edges of the crosstalk edge, and raises
\* nothing when other_operations is empty.
C21_NoneForbidsOnlySimultaneous ==
    (pc \in {"raised", "returned"} /\ NoneLabelledEdgesOf(call_operation) # {})
        => /\ (\E edge \in NoneLabelledEdgesOf(call_operation) :
                   OthersCover(edge)) => pc = "raised"
           /\ call_other_operations = <<>> => pc = "returned"

\* where a site's occupant is after the SWAPs of a matching
SwapSites(swap_set, p) ==
    IF \E i \in 1..Len(swap_set) : p \in Range(swap_set[i])
    THEN LET e == swap_set[CHOOSE i \in 1..Len(swap_set) :
                                p \in Range(swap_set[i])]
         IN IF p = e[1] THEN e[2] ELSE e[1]
    ELSE p

\* the distance of a logical pair once the matching is applied
DistanceAfter(swap_set, pair) ==
    physical_distances[<<SwapSites(swap_set, log_to_phys[pair[1]]),
                         SwapSites(swap_set, log_to_phys[pair[2]])>>]

\* some other candidate is at least as good on every pair of the layer
IsDominated(candidates, i, layer) ==
    \E j \in 1..Len(candidates) :
        /\ j # i
        /\ \A n \in 1..Len(layer) :
               DistanceAfter(candidates[j], layer[n])
                   <= DistanceAfter(candidates[i], layer[n])

RECURSIVE Undominated(_, _, _)
Undominated(candidates, i, layer) ==
    IF i > Len(candidates) THEN <<>>
    ELSE (IF IsDominated(candidates, i, layer) THEN <<>>
          ELSE <<candidates[i]>>) \o Undominated(candidates, i + 1, layer)

RECURSIVE Survivors(_, _)
\* the matchings of size k that survive the pruning of layers 1 .. t
Survivors(k, t) ==
    IF t = 0 THEN Matchings(SortedSeq(device_graph), k)
    ELSE Undominated(Survivors(k, t - 1), 1,
                     get_timeslices(circuit, remaining_dag)[t])

\* the k and layers at which exactly one candidate survives
SoleSurvivorAt ==
    {kt \in (1..max_search_radius)
                \X (1..Len(get_timeslices(circuit, remaining_dag))) :
        Len(Survivors(kt[1], kt[2])) = 1}

\* the smallest k and, within it, the earliest such layer
FirstSoleSurvivorAt ==
    CHOOSE kt \in SoleSurvivorAt :
        \A other \in SoleSurvivorAt :
            kt[1] < other[1] \/ (kt[1] = other[1] /\ kt[2] <= other[2])

\* what the step appended to the output
Appended == SubSeq(physical_ops', Len(physical_ops) + 1, Len(physical_ops'))

\* the two chains of SWAPs of the fallback along a path
FallbackChains(path) ==
    LET midpoint == (Len(path) - 1) \div 2
    IN [i \in 1..(midpoint - 1) |-> SWAP(<<path[i], path[i + 1]>>)]
           \o [i \in 1..(Len(path) - 1 - midpoint) |->
                   SWAP(<<path[midpoint + i], path[midpoint + i + 1]>>)]

\* the step applied the sole surviving matching and nothing else
MatchingApplied ==
    LET k == FirstSoleSurvivorAt[1]
        swap_set == Survivors(k, FirstSoleSurvivorAt[2])[1]
    IN /\ pc' = "draining"
       /\ Appended = [i \in 1..k |-> SWAP(swap_set[i])]
       /\ k <= max_search_radius
       /\ PairwiseDisjoint(swap_set)
       /\ \A i \in 1..k : InEdges(device_graph, swap_set[i])
       /\ \A l \in logical_qubits :
              log_to_phys'[l] = SwapSites(swap_set, log_to_phys[l])
       /\ fallback' = fallback

\* the step ran the fallback and nothing else: it raised, or it appended the
\* two chains along a shortest path between the sites of a pair of the
\* first layer
FallbackApplied ==
    \/ pc' = "error"
    \/ /\ pc' = "draining"
       /\ \E pair \in Range(get_timeslices(circuit, remaining_dag)[1]) :
              /\ fallback'.farthest_pair = pair
              /\ \E path \in ShortestPaths(device_graph, log_to_phys[pair[1]],
                                           log_to_phys[pair[2]]) :
                     Appended = FallbackChains(path)

\* C22: one apply_next_swaps applies exactly one of two things: the sole
\* surviving matching at the smallest k <= max_search_radius and the
\* earliest layer that leaves exactly one candidate, as k SWAPs on pairwise
\* disjoint device edges; or the fallback, which runs if and only if no k
\* and layer leave exactly one candidate. Never both.
C22_MatchingOrFallback ==
    [][pc = "searching" =>
           /\ SubSeq(physical_ops', 1, Len(physical_ops)) = physical_ops
           /\ IF SoleSurvivorAt # {} THEN MatchingApplied
              ELSE FallbackApplied]_vars

\* a matching of two edges was applied after no single edge survived alone
C22_Witness ==
    /\ pc = "draining"
    /\ pruning # <<>>
    /\ pruning[Len(pruning)].k = 2
    /\ pruning[Len(pruning)].timeslice = 2
    /\ pruning[Len(pruning)].kept = 1
    /\ IsSwap(Len(physical_ops))
    /\ IsSwap(Len(physical_ops) - 1)
    /\ fallback = NoFallback

\* the step is an apply_next_swaps that ran the fallback to its end
FallbackStep ==
    /\ pc = "searching"
    /\ pc' = "draining"
    /\ \A i \in DOMAIN pruning' : pruning'[i].kept # 1

\* C23: the fallback brings the selected pair together: for a pair at
\* distance d >= 2, after the two chains of SWAPs both operands have moved
\* toward the midpoint (each is nearer to where the other was) and the pair
\* is on adjacent sites.
C23_FallbackMakesAdjacent ==
    [][(FallbackStep /\ fallback'.max_distance >= 2) =>
           LET pair == fallback'.farthest_pair
               d == fallback'.max_distance
           IN /\ physical_distances[<<log_to_phys'[pair[1]],
                                      log_to_phys'[pair[2]]>>] = 1
              /\ physical_distances[<<log_to_phys'[pair[1]],
                                      log_to_phys[pair[2]]>>] < d
              /\ physical_distances[<<log_to_phys[pair[1]],
                                      log_to_phys'[pair[2]]>>] < d]_vars

\* C24: route() follows the state machine: it starts with one
\* apply_possible_ops; apply_next_swaps is invoked only when the remaining
\* graph is not empty; every apply_next_swaps is followed at once by one
\* apply_possible_ops; done is entered exactly when the remaining graph is
\* empty after an apply_possible_ops; nothing changes after done.
C24_RouteStateMachine ==
    /\ pc = "draining"
    /\ physical_ops = <<>>
    /\ [](pc = "searching" => remaining_dag # {})
    /\ [][pc = "searching" => pc' = "draining"]_vars
    /\ [][pc = "draining" =>
              /\ pc' \in {"searching", "done"}
              /\ pc' = "done" <=> remaining_dag' = {}
              /\ seen' = seen]_vars
    /\ [][pc # "done"]_vars

\* done after three swap searches, each followed by an apply_possible_ops
C24_Witness ==
    /\ pc = "done"
    /\ Cardinality(seen) >= 3
    /\ remaining_dag = {}

\* the operations of the remaining graph with no remaining prerequisite
RemainingFrontier ==
    {n \in remaining_dag :
        \A m \in remaining_dag :
            m < n => QubitsOf(circuit[m]) \cap QubitsOf(circuit[n]) = {}}

\* C25: when apply_possible_ops returns, no operation on the frontier of the
\* remaining graph is ready: each is a two-qubit operation whose mapped
\* sites are not adjacent.
C25_FrontierIsBlocked ==
    pc \in {"searching", "done"} =>
        \A n \in RemainingFrontier :
            /\ Len(circuit[n]) = 2
            /\ <<log_to_phys[circuit[n][1]], log_to_phys[circuit[n][2]]>>
                   \notin device_graph
            /\ <<log_to_phys[circuit[n][2]], log_to_phys[circuit[n][1]]>>
                   \notin device_graph

\* a scan after a swap search emitted an operation and left a blocked one
C25_Witness ==
    /\ pc = "searching"
    /\ seen # {}
    /\ RemainingFrontier # {}
    /\ \E i \in DOMAIN physical_ops : IsOp(i)
    /\ IsOp(Len(physical_ops))

\* the device edges, in both directions
PhysicalEdges ==
    {e \in physical_qubits \X physical_qubits : InEdges(device_graph, e)}

\* C26: update_mapping on a physical edge (p, q) exchanges the occupants of
\* p and q, an unfilled endpoint staying None on the other side, leaves the
\* occupant of every other site and the site of every other logical qubit
\* as they were, and a second update_mapping on the same edge restores the
\* mapping.
C26_UpdateMappingExchanges ==
    RouterState =>
        \A e \in PhysicalEdges :
            LET p == e[1]
                q == e[2]
                s == update_mapping(Self, <<e>>)
            IN /\ DOMAIN s.phys_to_log = physical_qubits
               /\ s.phys_to_log[p] = phys_to_log[q]
               /\ s.phys_to_log[q] = phys_to_log[p]
               /\ \A r \in physical_qubits \ {p, q} :
                      s.phys_to_log[r] = phys_to_log[r]
               /\ DOMAIN s.log_to_phys = logical_qubits
               /\ \A l \in logical_qubits :
                      s.log_to_phys[l] =
                          IF l = phys_to_log[p] THEN q
                          ELSE IF l = phys_to_log[q] THEN p
                          ELSE log_to_phys[l]
               /\ phys_to_log[p] # phys_to_log[q] => s # Self
               /\ update_mapping(s, <<e>>) = Self
               /\ update_mapping(Self, <<e, e>>) = Self

\* update_mapping has moved every qubit, and there is an edge with one
\* endpoint unfilled and an edge with both endpoints filled
C26_Witness ==
    /\ \A p \in DOMAIN initial_mapping : phys_to_log[p] # initial_mapping[p]
    /\ \E e \in PhysicalEdges :
           phys_to_log[e[1]] = None /\ phys_to_log[e[2]] # None
    /\ \E e \in PhysicalEdges :
           phys_to_log[e[1]] # None /\ phys_to_log[e[2]] # None

\* the pairs of the logical graph: the two-qubit operations of the circuit
\* that have no prerequisite
LogicalPairs ==
    {circuit[n] : n \in {m \in DOMAIN circuit :
        /\ Len(circuit[m]) = 2
        /\ \A k \in 1..(m - 1) :
               QubitsOf(circuit[k]) \cap QubitsOf(circuit[m]) = {}}}

\* the number of placed neighbours of a logical qubit in the logical graph
PlacedNeighbours(l) ==
    Cardinality({w \in Range(mapping) :
                    <<l, w>> \in LogicalPairs \/ <<w, l>> \in LogicalPairs})

\* the unused sites next to a used one
BorderSites ==
    {p \in physical_qubits \ DOMAIN mapping :
        \E u \in DOMAIN mapping :
            <<p, u>> \in device_graph \/ <<u, p>> \in device_graph}

RECURSIVE DistanceToUsed(_, _)
\* the sum of the distances from a site to the given used sites
DistanceToUsed(p, used) ==
    IF used = {} THEN 0
    ELSE LET u == CHOOSE u \in used : TRUE
         IN physical_distances[<<p, u>>] + DistanceToUsed(p, used \ {u})

\* C27: every expansion step of get_initial_mapping places exactly one new
\* qubit l on one new site p, where l is an unplaced qubit with the most
\* placed neighbours in the logical graph, p is an unused site next to a
\* used one, and the sum of the distances from p to the used sites is the
\* maximum over such sites.
C27_ExpansionStep ==
    [][(pc = "placing" /\ pc' = "placing") =>
           \E l \in unplaced_vertices : \E p \in BorderSites :
               /\ mapping' = Put(mapping, p, l)
               /\ unplaced_vertices' = unplaced_vertices \ {l}
               /\ Cardinality(DOMAIN mapping') = Cardinality(DOMAIN mapping) + 1
               /\ l \notin Range(mapping)
               /\ \A other \in unplaced_vertices :
                      PlacedNeighbours(other) <= PlacedNeighbours(l)
               /\ \A other \in BorderSites :
                      DistanceToUsed(other, DOMAIN mapping)
                          <= DistanceToUsed(p, DOMAIN mapping)]_vars

\* a qubit was placed on a border site that was farther from the used
\* sites than another border site, which is still unused
C27_Witness ==
    /\ pc = "placing"
    /\ \E p \in DOMAIN mapping : \E q \in physical_qubits \ DOMAIN mapping :
           LET used == DOMAIN mapping \ {p}
           IN /\ used # {}
              /\ \E u \in used : InEdges(device_graph, <<p, u>>)
              /\ \E u \in used : InEdges(device_graph, <<q, u>>)
              /\ DistanceToUsed(q, used) < DistanceToUsed(p, used)

\* C28: get_initial_mapping never returns a partial mapping: when qubits
\* are left to place and no unused site is next to a used one, the round
\* raises; it neither returns nor goes round again without placing.
C28_NoPartialMapping ==
    /\ []((pc = "draining" /\ mapping # <<>>)
              => {mapping[p] : p \in DOMAIN mapping} = logical_qubits)
    /\ [][(pc = "placing" /\ unplaced_vertices # {} /\ BorderSites = {})
              => pc' = "error"]_vars
    /\ [][(pc = "placing" /\ pc' = "placing")
              => Cardinality(unplaced_vertices')
                     < Cardinality(unplaced_vertices)]_vars
    /\ [][(pc = "placing" /\ pc' = "draining") => unplaced_vertices = {}]_vars

\* every site of a line is used and a qubit is left: the round raised
C28_Witness ==
    /\ pc = "error"
    /\ device_graph # {}
    /\ DOMAIN mapping = physical_qubits
    /\ unplaced_vertices # {}
    /\ Cardinality(physical_qubits) < Cardinality(logical_qubits)

\* C29: the cache edge_sets is append-only for each size: once
\* get_edge_sets(k) has been computed, no later get_edge_sets, pruning or
\* change of the mapping modifies its entry (the step that computes it
\* leaves it as computed, pruned candidates included), and a later
\* get_edge_sets(k) returns that entry and leaves the router as it is.
C29_EdgeSetsAppendOnly ==
    /\ [][\A k \in DOMAIN edge_sets :
              k \in DOMAIN edge_sets' /\ edge_sets'[k] = edge_sets[k]]_vars
    /\ [][\A k \in DOMAIN edge_sets' \ DOMAIN edge_sets :
              edge_sets'[k] = get_edge_sets(Self, k).edge_sets[k]]_vars
    /\ [](\A k \in DOMAIN edge_sets : get_edge_sets(Self, k) = Self)

\* three swap searches with pruning, between them the mapping changed, and
\* the matchings of sizes 1 and 2 are cached
C29_Witness ==
    /\ pc = "draining"
    /\ Cardinality(seen) >= 3
    /\ DOMAIN edge_sets = {1, 2}
    /\ \E p \in DOMAIN initial_mapping : phys_to_log[p] # initial_mapping[p]
    /\ \E i \in DOMAIN pruning : pruning[i].kept < Len(pruning[i].vectors)

\* a path connects the two sites: the least relation that holds of a site
\* and itself and is closed under device edges
RECURSIVE ConnectedTo(_, _)
ConnectedTo(a, found) ==
    LET more == found \cup
                    {b \in physical_qubits :
                        \E c \in found : <<b, c>> \in device_graph
                                             \/ <<c, b>> \in device_graph}
    IN IF more = found THEN found ELSE ConnectedTo(a, more)

LogicalPairsOf(qubits) == {e \in qubits \X qubits : e[1] # e[2]}

\* C30: the distance index has an entry exactly for the ordered pairs of
\* sites that a path connects, and the entry is the hop count of a
\* shortest path: 0 iff the sites are equal, 1 iff they are a device edge,
\* symmetric, and for distinct sites one more than the least entry of a
\* neighbour. distance(edge) is the entry of the sites the pair is mapped
\* to, and a two-qubit operation is ready exactly when it is 1.
C30_DistanceIndex ==
    RouterState =>
        /\ DOMAIN physical_distances =
               {e \in physical_qubits \X physical_qubits :
                    e[2] \in ConnectedTo(e[1], {e[1]})}
        /\ \A e \in DOMAIN physical_distances :
               LET a == e[1]
                   b == e[2]
                   d == physical_distances[e]
               IN /\ d \in Nat
                  /\ d = 0 <=> a = b
                  /\ d = 1 <=> (<<a, b>> \in device_graph
                                    \/ <<b, a>> \in device_graph)
                  /\ d = physical_distances[<<b, a>>]
                  /\ a # b =>
                         /\ \E c \in physical_qubits :
                                /\ <<a, c>> \in DOMAIN physical_distances
                                /\ physical_distances[<<a, c>>] = 1
                                /\ physical_distances[<<c, b>>] = d - 1
                         /\ \A c \in physical_qubits :
                                (<<a, c>> \in DOMAIN physical_distances
                                     /\ physical_distances[<<a, c>>] = 1)
                                    => physical_distances[<<c, b>>] >= d - 1
        /\ \A edge \in LogicalPairsOf(logical_qubits) :
               LET sites == <<log_to_phys[edge[1]], log_to_phys[edge[2]]>>
               IN /\ sites \in DOMAIN physical_distances =>
                         distance(Self, edge) = physical_distances[sites]
                  /\ ~acts_on_nonadjacent_qubits(Self, edge) <=>
                         (sites \in DOMAIN physical_distances
                              /\ physical_distances[sites] = 1)

\* on a device with a site no path leads to, update_mapping has brought two
\* qubits that were two hops apart onto adjacent sites
C30_Witness ==
    /\ pc = "draining"
    /\ DOMAIN physical_distances # physical_qubits \X physical_qubits
    /\ \E edge \in LogicalPairsOf(logical_qubits) :
           /\ LogToPhys(Self, edge) \in DOMAIN physical_distances
           /\ distance(Self, edge) = 1
           /\ \E p, q \in DOMAIN initial_mapping :
                  /\ initial_mapping[p] = edge[1]
                  /\ initial_mapping[q] = edge[2]
                  /\ <<p, q>> \in DOMAIN physical_distances
                  /\ physical_distances[<<p, q>>] = 2

RECURSIVE Replayed(_)
\* the occupants of the sites after the SWAPs among the first n entries of
\* the output, starting from initial_mapping: a SWAP exchanges the
\* occupants of its two sites, any other entry moves nothing
Replayed(n) ==
    IF n = 0
    THEN [p \in physical_qubits |->
             IF p \in DOMAIN initial_mapping THEN initial_mapping[p] ELSE None]
    ELSE LET before == Replayed(n - 1)
             e == physical_ops[n].qubits
         IN IF IsSwap(n)
            THEN [p \in physical_qubits |->
                     IF p = e[1] THEN before[e[2]]
                     ELSE IF p = e[2] THEN before[e[1]]
                     ELSE before[p]]
            ELSE before

\* C31: the live mapping is the initial mapping with every SWAP of the
\* output replayed in output order, in both directions of the lookup, and
\* every translated operation of the output acts on the sites that hold its
\* logical operands under the mapping replayed up to its position.
C31_MappingIsReplayOfOutput ==
    RouterState =>
        /\ phys_to_log = Replayed(Len(physical_ops))
        /\ \A l \in logical_qubits :
               Replayed(Len(physical_ops))[log_to_phys[l]] = l
        /\ \A i \in DOMAIN physical_ops :
               IsOp(i) =>
                   LET logical_op == circuit[physical_ops[i].node]
                   IN /\ Len(physical_ops[i].qubits) = Len(logical_op)
                      /\ \A j \in 1..Len(logical_op) :
                             Replayed(i - 1)[physical_ops[i].qubits[j]]
                                 = logical_op[j]

\* after swap searches that measured candidates, a translated two-qubit
\* operation follows a SWAP that moved one of its operands, and a later
\* SWAP moved an operand again
C31_Witness ==
    /\ pc = "done"
    /\ \E i, j, k \in DOMAIN physical_ops :
           /\ i < j
           /\ j < k
           /\ IsSwap(i)
           /\ IsOp(j)
           /\ IsSwap(k)
           /\ Len(physical_ops[j].qubits) = 2
           /\ \E a \in 1..2 :
                  /\ physical_ops[j].qubits[a] \in Range(physical_ops[i].qubits)
                  /\ InitialSite(circuit[physical_ops[j].node][a])
                         # physical_ops[j].qubits[a]
           /\ Replayed(k) # Replayed(k - 1)
    /\ phys_to_log # Replayed(0)

\* the step is an apply_next_swaps in which no matching size and layer left
\* exactly one candidate: it went on to the fallback
ReachesFallback ==
    /\ pc = "searching"
    /\ pc' # "searching"
    /\ \A i \in DOMAIN pruning' : pruning'[i].kept # 1

\* the logical edges of the first layer: the pairs of the two-qubit
\* operations with no remaining prerequisite
FrontierEdges == {circuit[n] : n \in {m \in RemainingFrontier : Len(circuit[m]) = 2}}

\* the sequences of d + 1 sites from a to b along device edges
WalksOfSites(a, b, d) ==
    {path \in [1..(d + 1) -> physical_qubits] :
        /\ path[1] = a
        /\ path[d + 1] = b
        /\ \A i \in 1..d : <<path[i], path[i + 1]>> \in device_graph
                               \/ <<path[i + 1], path[i]>> \in device_graph}

\* C32: whenever route() reaches the fallback its precondition holds: the
\* first layer has at least one logical edge, every such edge is mapped to
\* sites at distance 2 or more, the path the SWAPs run along has exactly
\* distance + 1 sites for the distance of the selected pair, and neither
\* assertion fails.
C32_FallbackPrecondition ==
    [][ReachesFallback =>
           /\ pc' = "draining"
           /\ FrontierEdges # {}
           /\ Range(fallback'.pairs) = FrontierEdges
           /\ \A pair \in FrontierEdges :
                  LET sites == <<log_to_phys[pair[1]], log_to_phys[pair[2]]>>
                  IN /\ sites \in DOMAIN physical_distances
                     /\ physical_distances[sites] >= 2
           /\ LET pair == fallback'.farthest_pair
                  a == log_to_phys[pair[1]]
                  b == log_to_phys[pair[2]]
              IN /\ pair \in FrontierEdges
                 /\ fallback'.max_distance = physical_distances[<<a, b>>]
                 /\ \E path \in WalksOfSites(a, b, physical_distances[<<a, b>>]) :
                        Appended = FallbackChains(path)]_vars

\* after an earlier swap search the fallback ran for a pair at a distance
\* at which the device also joins two sites by a longer walk
C32_Witness ==
    /\ pc = "draining"
    /\ Cardinality(seen) >= 2
    /\ pruning # <<>>
    /\ \A i \in DOMAIN pruning : pruning[i].kept # 1
    /\ fallback.max_distance >= 2
    /\ IsSwap(Len(physical_ops))
    /\ \E a, b \in physical_qubits :
           /\ <<a, b>> \in DOMAIN physical_distances
           /\ physical_distances[<<a, b>>] = fallback.max_distance
           /\ WalksOfSites(a, b, fallback.max_distance + 1) # {}

\* the step is one apply_next_swaps call of route()
ApplyNextSwapsStep == pc = "searching" /\ pc' # "searching"

\* C33: every apply_next_swaps call made by route() returns with at least
\* one more entry in the output, every new entry a SWAP, and with the
\* mapping changed: some logical qubit is on another site than before the
\* call, and some site has another occupant.
C33_SwapStepMovesAQubit ==
    [][ApplyNextSwapsStep =>
           /\ pc' = "draining"
           /\ Len(physical_ops') > Len(physical_ops)
           /\ \A i \in DOMAIN Appended : Appended[i].gate = "SWAP"
           /\ \E l \in logical_qubits : log_to_phys'[l] # log_to_phys[l]
           /\ phys_to_log' # phys_to_log]_vars

RECURSIVE UsedSitesJoinedTo(_)
\* the used sites that device edges between used sites join to the given ones
UsedSitesJoinedTo(found) ==
    LET more == found \cup
                    {b \in DOMAIN mapping :
                        \E c \in found : <<b, c>> \in device_graph
                                             \/ <<c, b>> \in device_graph}
    IN IF more = found THEN found ELSE UsedSitesJoinedTo(more)

\* C34: throughout get_initial_mapping the used sites induce a connected
\* subgraph of the device graph: from any used site every used site is
\* reached along device edges between used sites; the seed is one site, and
\* every later round adds one site that is adjacent to a site used before.
C34_UsedSitesConnected ==
    /\ [](\A a \in DOMAIN mapping : UsedSitesJoinedTo({a}) = DOMAIN mapping)
    /\ [][(pc = "centering" /\ pc' = "placing")
              => Cardinality(DOMAIN mapping') = 1]_vars
    /\ [][(pc = "placing" /\ mapping' # mapping) =>
              \E p \in physical_qubits \ DOMAIN mapping :
                  /\ DOMAIN mapping' = DOMAIN mapping \cup {p}
                  /\ \E q \in DOMAIN mapping :
                         <<p, q>> \in device_graph \/ <<q, p>> \in device_graph
                  /\ \A q \in DOMAIN mapping : mapping'[q] = mapping[q]]_vars

\* the placement has returned with three or more sites used, two of them
\* not adjacent, and a site left unused
C34_Witness ==
    /\ pc = "draining"
    /\ Cardinality(DOMAIN mapping) >= 3
    /\ DOMAIN mapping # physical_qubits
    /\ \E a, b \in DOMAIN mapping :
           /\ a # b
           /\ <<a, b>> \notin device_graph
           /\ <<b, a>> \notin device_graph

====
